---------------------------- MODULE Spec2Model ----------------------------
(***************************************************************************)
(* natsvr: the Cloud forwarder (internal/cloud/forward.go) and the Agent's *)
(* RemoteProxy (internal/agent), as a state machine.                       *)
(*                                                                         *)
(* A cloud->agent TCP rule listens on Cloud; every accepted client runs    *)
(* handleRemoteTCPConnection as a task of its own.  One dispatcher per     *)
(* Agent session feeds HandleConnectAck / HandleData / HandleClose.  The   *)
(* Agent answers Connect by dialling the target and starts one reader per  *)
(* tunnel (readFromLocal).                                                 *)
(*                                                                         *)
(* Bytes are not modelled by value: a chunk is the interval [from, n] of   *)
(* the source socket's byte stream, so that order, loss and duplication of *)
(* bytes are all visible.                                                  *)
(***************************************************************************)
EXTENDS Integers, Sequences, FiniteSets, TLC

\* ------------------------------------------------------------ bounds
MaxConns == 2        \* client connections accepted in one run
MaxCliWrites == 2    \* writes a client performs on one connection
MaxTgtWrites == 1    \* writes a target performs on one tunnel socket
MaxForged == 1       \* frames an Agent sends for tunnel-ids it was never given
MaxApiSends == 1     \* frames sent through Forwarder.SendToAgent
MaxDirectWrites == 2  \* writes of each end of a cloud->direct tcp connection
MaxDgrams == 2        \* datagrams a udp client sends
MaxGens == 2          \* times the followed rule is started
MaxPumpReads == 2     \* chunks the pumps of the followed rule read
MaxRetries == 6       \* the largest maxRetries RetryWithBackoff is called with
MaxStallFrames == 4   \* Data frames the Agent sends on the followed session
MaxBuffered == 1      \* payloads a client socket buffers for a client that does not read
MaxTime == 5          \* ticks the clock runs
MaxRateReads == 3     \* reads of the pump loops of the rate-limited rule
MaxRateFrames == 3    \* Data frames the Agent sends on the rate-limited rule
MaxLocalWrites == 2   \* writes of the users of the Agent's local listener
MaxRemoteDgrams == 2  \* datagrams sent to the cloud->agent udp rules
MaxMeterReads == 4   \* chunks the pumps of the metered rule read
MaxLockOps == 4      \* calls of StartRule, StopRule and HandleUDPData
MaxAcks == 4         \* ConnectAck frames the Agent sends
MaxStarts == 2       \* successful StartRule calls per rule
MaxServed == 1       \* connections or datagrams a listener task takes
MaxBursts == 1       \* bursts of refused connects (each walks the id counter)

\* ------------------------------------------------- program constants
DelayCap == 30            \* 30*time.Second, in seconds
BufSize == 32768          \* buf := make([]byte, 32768)
Half == 65536            \* tunnelIDGen is a uint32, kept as two 16-bit halves
                         \* <<high, low>>: its value is high * 65536 + low

Conns == 1..MaxConns
Agents == {"a1", "a2"}
Rules == {"r1", "r2"}
NoAgent == "none"

\* The stored rules: cloud->agent ("remote"), tcp, target Agent a1,
\* traffic-limit of one buffer and one byte, each with a listen port of its own.
\* The tunnels of this model are those of rule r1.
TargetAgentID(r) == "a1"
TrafficLimit(r) == BufSize + 1
InitialTrafficUsed(r) == 0
ListenPort(r) == r

\* The cloud->direct rules: dt is tcp, du is udp; both have the traffic-limit
\* of the rules above and a non-zero rate-limit.
DirectRules == {"dt", "du"}
Dirs == {"c2t", "t2c"}
DirectLimit(r) == BufSize + 1

\* The cloud->agent udp rules, both enabled and running, both with target
\* Agent a1, and the clients that send datagrams to them.
UDPRules == {"u1", "u2"}
UDPClients == {"k1", "k2"}

\* The connections the Agent's local listener accepts.
LocalConns == {"l1", "l2"}

\* The established connections of the rate-limited rule, the sizes of the
\* chunks that travel on them, and the rule's rate-limit in bytes per second
\* (the bucket's capacity is the rate).
RateConns == {"x1", "x2"}

\* Rules of every type and protocol, all configured with the same listen port.
RuleTypes == {"remote", "cloud-self", "local", "p2p"}
Protocols == {"tcp", "udp"}
KindRules == RuleTypes \X Protocols
RuleType(r) == r[1]
Protocol(r) == r[2]

\* The initial delays RetryWithBackoff is called with, in seconds.
InitialDelays == {0, 1, 3, 30, 31}

\* The connections accepted on the rule that is stopped and started again.
Pumps == {"p1", "p2"}
MeterConns == {"m1", "m2"}
\* A cloud->agent tcp rule and a cloud->agent udp rule, on different ports,
\* and the RuleStates StartRule builds for each.
ListenRules == {"lt", "lu"}
ListenGens == 1..MaxStarts
\* The tunnels whose ConnectAck frames the session's reader hands over.
AckTunnels == {"t1", "t2"}
\* The API tasks that start and stop rules and the reader tasks of the sessions.
ApiTasks == {"api1", "api2"}
ReaderTasks == {"rd1", "rd2"}
LockTasks == ApiTasks \cup ReaderTasks
\* The traffic-limits and the stored traffic-used a limited rule is started with.
MeterLimits == {0, 3, 4}
MeterUsed == {0, 1, 3, 5}

\* The established tunnels of the session whose reader is followed.
StallTunnels == {"t1", "t2"}
ChunkSizes == {1, 2}
RateLimit == 2

VARIABLES
    \* ---- Forwarder
    active,        \* ForwardRuleState.Active, per rule
    inRules,       \* rule id is a key of Forwarder.rules
    listenerOpen,  \* ForwardRuleState.Listener is open
    trafficUsed,   \* ForwardRuleState.TrafficUsed (atomic)
    storedTraffic, \* traffic_used column of the store
    tunnelIDGen,   \* Forwarder.tunnelIDGen (uint32)
    tunnelConns,   \* Forwarder.tunnelConns: set of [id, agent, conn]
    pendingAcks,   \* Forwarder.pendingAcks: set of [id, conn] (conn's ackChan)
    ackChan,       \* per handler: its ackChan (capacity 1): "empty" | "ok" | "fail"
    \* ---- AgentConn (session)
    connected,     \* session is registered in the Server (GetAgent finds it)
    agentTunnels,  \* AgentConn.tunnels: set of ids
    activeTunnels, \* AgentConn.ActiveTunnels
    writers,       \* tasks that are inside Conn.WriteMessage of the session
    toAgent,       \* frames on the channel Cloud -> Agent
    toCloud,       \* frames on the channel Agent -> Cloud
    \* ---- handleRemoteTCPConnection, one task per accepted connection
    pc, hRule, hAgent, tid, chunk,
    \* ---- the accepted client socket
    connClosed,    \* Cloud called conn.Close()
    cliWrites,     \* writes the client did
    cliSent,       \* bytes the client wrote
    cliEOF,        \* client closed its end
    cloudRead,     \* bytes conn.Read returned so far
    cliRecv,       \* chunks written to the client socket
    \* ---- Agent side: RemoteProxy
    rpTunnels,     \* RemoteProxy.tunnels per Agent: set of [id, conn]
    rpc,           \* readFromLocal task of the socket dialled for connection c
    localClosed,   \* Agent called LocalConn.Close()
    tgtWrites, tgtSent, tgtEOF, agentRead,
    tgtRecv,       \* chunks written to the target socket
    ackDue,        \* per Agent: Connects handled whose ConnectAck is not yet sent
    \* ---- history
    readLog,       \* chunks conn.Read returned, per connection
    emitted,       \* Data frames the Cloud pump put on the channel, per connection
    acked,         \* "handed": HandleConnectAck put a success ack of the tunnel's
                   \* Agent in this handler's ackChan; "taken": the handler took it
    ackOutcome,    \* how the handler's wait for the ConnectAck ended: "none" |
                   \* "ok" | "refused" | "timeout"
    arrived,       \* Data chunks the dispatcher got for the tunnel after the ack
    closeSeen,     \* per connection: ends that received Close for its tunnel
    sideLog,       \* per side and connection: the types of the frames the
                   \* tunnel's task of that side put on the channel, in order
    forged,        \* forged frames sent so far
    bursts,        \* bursts so far
    apiSent,       \* frames sent through Forwarder.SendToAgent so far
    \* ---- the store, the ports of the host and the callers of the rule table
    enabled,       \* ForwardRule.Enabled of each stored rule
    portHeld,      \* listen ports bound by other processes of the host
    runPc,         \* Run: "boot" | "loop" | "done"
    runTodo,       \* Run: the loaded rules its loop has yet to visit
    runStarted,    \* Run: the rules it has called StartRule for
    lastCall,      \* per rule: "none", or what the last StartRule for it
                   \* returned ("nil" | "exists" | "listen"), or "stopped" after
                   \* a StopRule that found it
    \* ---- the cloud->direct ("cloud-self") rules dt (tcp) and du (udp)
    dUsed,         \* ForwardRuleState.TrafficUsed of each direct rule
    dWaited,       \* bytes that went through RateLimiter.Wait, per direct rule
    dFwd,          \* bytes written to a destination, per direct rule
    dpc,           \* handleCloudSelfTCPConnection of the one tcp client
    cpc,           \* copyWithLimits, per direction "c2t" | "t2c"
    cbuf,          \* per direction: n of the last Read
    dAvail,        \* per direction: bytes written by the source and not read yet
    dWrites,       \* per direction: writes the source has made
    dClosed,       \* clientConn and targetConn are closed (deferred)
    uQueued,       \* datagrams of the udp client waiting at the rule's socket
    uSent,         \* datagrams the udp client has sent
    uTarget,       \* clients[clientKey] exists (and its reply task runs)
    uAtTarget,     \* datagrams the target has received and not answered
    uReplies,      \* replies waiting at targetConn
    \* ---- the cloud->agent udp rules
    uSock,         \* datagrams waiting at the rules' sockets: [client, rule]
    uOut,          \* UDPData frames on the way to the Agent: [agent, src, via]
    uBack,         \* UDPData replies on the way to Cloud: [agent, dest, via]
    uDelivered,    \* replies sent to clients: [client, socket, via]
    uCount,        \* datagrams the clients have sent
    \* ---- the Agent's local listener (LocalProxy)
    lpc,           \* position of handleTCPConn for each accepted connection
    lGen,          \* LocalProxy.tunnelIDGen
    lDialled,      \* the Agent dialled the target from its own network
    lFrames,       \* frames the LocalProxy sent on the control channel
    lPendUp,       \* bytes the client wrote, not yet read by the proxy
    lAtTarget,     \* bytes written to the target
    lPendDown,     \* bytes the target wrote, not yet read by the proxy
    lAtClient,     \* bytes written to the client
    lWrites,       \* writes of the client and the target so far
    \* ---- a rate-limited cloud->agent rule, with time
    rNow,          \* the clock, in ticks
    rTokens,       \* RateLimiter: current tokens (negative: reserved ahead)
    rLast,         \* RateLimiter: last-refill instant
    pumpPc,        \* position of each connection's pump loop
    rn,            \* the chunk the pump holds while it sleeps in Wait
    rWake,         \* the instant the sleep in Wait ends
    sentUp,        \* bytes emitted as Data to the Agent, per tick
    sentDown,      \* bytes written to client sockets by HandleData, per tick
    rReads,        \* reads of the pump loops so far
    rFrames,       \* Data frames received from the Agent so far
    \* ---- a session's reader and clients that stop reading
    sQueue,        \* Data frames of the session not yet read, by tunnel
    sReader,       \* the reader task: "idle", or the tunnel whose Write blocks it
    sRoom,         \* payloads each client socket can still take
    sStalled,      \* the clients that have stopped reading
    sWritten,      \* payloads written to each client socket
    sFrames,       \* Data frames the Agent has sent
    \* ---- the rule table over rules of every type
    kRules,        \* f.rules: the ids of the rules that have a RuleState
    kListener,     \* the rules whose RuleState has a Listener
    kUDPConn,      \* the rules whose RuleState has a UDPConn
    kHeld,         \* the protocols whose listen port another process holds
    kCall,         \* the last call of StartRule or StopRule and what it returned
    \* ---- one call of RetryWithBackoff
    bPc,           \* "idle" | "loop" | "done"
    bD,            \* initialDelay, in seconds
    bMax,          \* maxRetries
    bDelay,        \* delay
    bI,            \* i
    bLastErr,      \* lastErr: 0 for nil, k for the error of the k-th call of fn
    bRet,          \* what the call returned, as lastErr; -1 before it returns
    bWaits,        \* the arguments of time.Sleep so far
    bResults,      \* whether each call of fn so far succeeded
    \* ---- one rule's RuleStates, the store and the pumps, across stop and start
    qStored,       \* the store's traffic_used of the rule
    qGen,          \* the RuleState f.rules holds for the rule (0: none)
    qGens,         \* RuleStates created so far
    qUsed,         \* per RuleState: TrafficUsed
    qActive,       \* per RuleState: Active
    qStop,         \* StopRule: "idle", or "loaded" once it has read TrafficUsed
    qLoaded,       \* StopRule: its local trafficUsed
    qSaved,        \* per RuleState: the value StopRule persisted for it (-1: none)
    qPump,         \* per pump: the RuleState its connection was accepted under
    qPc,           \* per pump: "idle" | "test" | "read" | "add" | "done"
    qReads,        \* chunks the pumps have read
    \* the pump of a limited rule, step by step
    mStarted,      \* StartRule has built the RuleState
    mLimit,        \* Rule.TrafficLimit (0: no limit)
    mLimiter,      \* the RuleState has a RateLimiter
    mUsed0,        \* Rule.TrafficUsed when the rule was started
    mUsed,         \* RuleState.TrafficUsed
    mPc,           \* connection -> the position of its handler
    mN,            \* connection -> n of the chunk its pump is handling
    mNew,          \* connection -> newTotal in addTraffic
    mTrail,        \* connection -> the steps its current chunk went through
    mEmitted,      \* bytes of the rule's Data frames sent to the Agent
    mReads,        \* reads so far
    \* the rule-table lock
    wRun,          \* the udp rules in f.rules
    wPc,           \* task -> its position in StopRule or HandleUDPData
    wMode,         \* task -> how it holds rulesMu: none, read, write
    wRule,         \* task -> the rule it works on
    wOps,          \* calls begun so far
    \* the two ends of the cloud->direct tcp connection
    dEOF,          \* direction -> its source has shut down its sending side
    dPut,          \* direction -> bytes its source has written
    dGot,          \* direction -> bytes written to its destination
    \* the pending-ack rendezvous
    aEntry,        \* tunnels with an entry in f.pendingAcks
    aChan,         \* tunnel -> acks buffered in its channel (capacity 1)
    aHandler,      \* tunnel -> the position of its accept task
    aReader,       \* the position of the session's reader in HandleConnectAck
    aFor,          \* the tunnel whose channel the reader sends to
    aQueue,        \* the ConnectAck frames received and not yet handled
    aSent,         \* ConnectAck frames the Agent has sent so far
    \* the listener tasks of a rule that is stopped and started again
    nRun,          \* rule -> the RuleState in f.rules (0: none)
    nGen,          \* rule -> RuleStates built so far
    nActive,       \* rule -> RuleState -> its Active flag
    nOpen,         \* rule -> RuleState -> its listener or udp socket is open
    nTask,         \* rule -> RuleState -> the position of its listener task
    nServed,       \* rule -> RuleState -> connections or datagrams it took
    nCall          \* the last StartRule or StopRule call and what it returned

fwdVars == <<active, inRules, listenerOpen, trafficUsed, storedTraffic,
             tunnelIDGen, tunnelConns, pendingAcks, ackChan>>
sessVars == <<connected, agentTunnels, activeTunnels, writers, toAgent, toCloud>>
taskVars == <<pc, hRule, hAgent, tid, chunk>>
sockVars == <<connClosed, cliWrites, cliSent, cliEOF, cloudRead, cliRecv>>
agentVars == <<rpTunnels, rpc, localClosed, tgtWrites, tgtSent, tgtEOF,
               agentRead, tgtRecv, ackDue>>
envVars == <<forged, bursts, apiSent>>
histVars == <<readLog, emitted, acked, ackOutcome, arrived, closeSeen, sideLog, envVars>>
directVars == <<dUsed, dWaited, dFwd, dpc, cpc, cbuf, dAvail, dWrites, dClosed,
                uQueued, uSent, uTarget, uAtTarget, uReplies>>
tunnelVars == <<fwdVars, sessVars, taskVars, sockVars, agentVars, histVars>>
ruleVars == <<enabled, portHeld, runPc, runTodo, runStarted, lastCall>>
udpVars == <<uSock, uOut, uBack, uDelivered, uCount>>
\* What the rule table's operations, the cloud->direct handlers and the udp
\* handlers leave alone, besides tunnelVars.
localVars == <<lpc, lGen, lDialled, lFrames, lPendUp, lAtTarget, lPendDown, lAtClient, lWrites>>
rateVars == <<rNow, rTokens, rLast, pumpPc, rn, rWake, sentUp, sentDown, rReads, rFrames>>
stallVars == <<sQueue, sReader, sRoom, sStalled, sWritten, sFrames>>
kindVars == <<kRules, kListener, kUDPConn, kHeld, kCall>>
retryVars == <<bPc, bD, bMax, bDelay, bI, bLastErr, bRet, bWaits, bResults>>
persistVars == <<qStored, qGen, qGens, qUsed, qActive, qStop, qLoaded, qSaved, qPump, qPc, qReads>>
meterVars == <<mStarted, mLimit, mLimiter, mUsed0, mUsed, mPc, mN, mNew, mTrail, mEmitted, mReads>>
lockVars == <<wRun, wPc, wMode, wRule, wOps>>
eofVars == <<dEOF, dPut, dGot>>
ackVars == <<aEntry, aChan, aHandler, aReader, aFor, aQueue, aSent>>
listenVars == <<nRun, nGen, nActive, nOpen, nTask, nServed, nCall>>
exceptRule == <<directVars, udpVars, localVars, rateVars, stallVars, kindVars, retryVars, persistVars, meterVars, lockVars, eofVars, ackVars, listenVars>>
exceptDirect == <<ruleVars, udpVars, localVars, rateVars, stallVars, kindVars, retryVars, persistVars, meterVars, lockVars, ackVars, listenVars>>
exceptUDP == <<ruleVars, directVars, localVars, rateVars, stallVars, kindVars, retryVars, persistVars, meterVars, lockVars, eofVars, ackVars, listenVars>>
exceptLocal == <<ruleVars, directVars, udpVars, rateVars, stallVars, kindVars, retryVars, persistVars, meterVars, lockVars, eofVars, ackVars, listenVars>>
exceptRate == <<ruleVars, directVars, udpVars, localVars, stallVars, kindVars, retryVars, persistVars, meterVars, lockVars, eofVars, ackVars, listenVars>>
exceptStall == <<ruleVars, directVars, udpVars, localVars, rateVars, kindVars, retryVars, persistVars, meterVars, lockVars, eofVars, ackVars, listenVars>>
exceptKinds == <<ruleVars, directVars, udpVars, localVars, rateVars, stallVars, retryVars, persistVars, meterVars, lockVars, eofVars, ackVars, listenVars>>
exceptRetry == <<ruleVars, directVars, udpVars, localVars, rateVars, stallVars, kindVars, persistVars, meterVars, lockVars, eofVars, ackVars, listenVars>>
exceptPersist == <<ruleVars, directVars, udpVars, localVars, rateVars, stallVars, kindVars, retryVars, meterVars, lockVars, eofVars, ackVars, listenVars>>
exceptMeter == <<ruleVars, directVars, udpVars, localVars, rateVars, stallVars, kindVars, retryVars, persistVars, lockVars, eofVars, ackVars, listenVars>>
exceptLock == <<ruleVars, directVars, udpVars, localVars, rateVars, stallVars, kindVars, retryVars, persistVars, meterVars, eofVars, ackVars, listenVars>>
exceptAck == <<ruleVars, directVars, udpVars, localVars, rateVars, stallVars, kindVars, retryVars, persistVars, meterVars, lockVars, eofVars, listenVars>>
exceptListen == <<ruleVars, directVars, udpVars, localVars, rateVars, stallVars, kindVars, retryVars, persistVars, meterVars, lockVars, eofVars, ackVars>>
\* The state the tunnels of a cloud->agent TCP rule do not touch.
otherVars == <<ruleVars, directVars, udpVars, localVars, rateVars, stallVars, kindVars, retryVars, persistVars, meterVars, lockVars, eofVars, ackVars, listenVars>>
vars == <<fwdVars, sessVars, taskVars, sockVars, agentVars, histVars, otherVars>>

\* ------------------------------------------------------------ helpers
NoChunk == [from |-> 0, n |-> 0]
\* A frame: type, tunnel-id, payload (a chunk, or success for ConnectAck).  The
\* field c is history only: the connection whose Connect opened the tunnel
\* (0 for a forged frame); no action reads it to decide anything.
Frame(t, i, f, k, s, g) ==
    [type |-> t, id |-> i, from |-> f, n |-> k, ok |-> s, c |-> g]

Min(a, b) == IF a < b THEN a ELSE b

\* A Go map keyed by tunnel-id, kept as a set of records: m[id] = rec.
MapPut(m, rec) == {e \in m : e.id # rec.id} \cup {rec}
MapDel(m, i) == {e \in m : e.id # i}
MapHas(m, i) == \E e \in m : e.id = i
MapGet(m, i) == CHOOSE e \in m : e.id = i

\* Total length of a sequence of chunks.
RECURSIVE SumN(_)
SumN(s) == IF s = <<>> THEN 0 ELSE Head(s).n + SumN(Tail(s))

\* The chunks are consecutive intervals of one byte stream starting at byte 1.
RECURSIVE Contiguous(_, _)
Contiguous(s, start) ==
    IF s = <<>> THEN TRUE
    ELSE Head(s).from = start /\ Head(s).n > 0
         /\ Contiguous(Tail(s), start + Head(s).n)

IsPrefix(s, t) == Len(s) <= Len(t) /\ SubSeq(t, 1, Len(s)) = s

\* Everything but the rule table, as NewForwarder and the Server leave it.
InitRest ==
    /\ trafficUsed = [r \in Rules |-> InitialTrafficUsed(r)]
    /\ storedTraffic = [r \in Rules |-> InitialTrafficUsed(r)]
    /\ tunnelIDGen = <<0, 0>>
    /\ tunnelConns = {}
    /\ pendingAcks = {}
    /\ ackChan = [c \in Conns |-> "empty"]
    /\ connected = [a \in Agents |-> TRUE]
    /\ agentTunnels = [a \in Agents |-> {}]
    /\ activeTunnels = [a \in Agents |-> 0]
    /\ writers = [a \in Agents |-> {}]
    /\ toAgent = [a \in Agents |-> <<>>]
    /\ toCloud = [a \in Agents |-> <<>>]
    /\ pc = [c \in Conns |-> "idle"]
    /\ hRule = [c \in Conns |-> "r1"]
    /\ hAgent = [c \in Conns |-> NoAgent]
    /\ tid = [c \in Conns |-> <<0, 0>>]
    /\ chunk = [c \in Conns |-> NoChunk]
    /\ connClosed = [c \in Conns |-> FALSE]
    /\ cliWrites = [c \in Conns |-> 0]
    /\ cliSent = [c \in Conns |-> 0]
    /\ cliEOF = [c \in Conns |-> FALSE]
    /\ cloudRead = [c \in Conns |-> 0]
    /\ cliRecv = [c \in Conns |-> <<>>]
    /\ rpTunnels = [a \in Agents |-> {}]
    /\ rpc = [c \in Conns |-> "none"]
    /\ localClosed = [c \in Conns |-> FALSE]
    /\ tgtWrites = [c \in Conns |-> 0]
    /\ tgtSent = [c \in Conns |-> 0]
    /\ tgtEOF = [c \in Conns |-> FALSE]
    /\ agentRead = [c \in Conns |-> 0]
    /\ tgtRecv = [c \in Conns |-> <<>>]
    /\ ackDue = [a \in Agents |-> <<>>]
    /\ readLog = [c \in Conns |-> <<>>]
    /\ emitted = [c \in Conns |-> <<>>]
    /\ acked = [c \in Conns |-> "no"]
    /\ ackOutcome = [c \in Conns |-> "none"]
    /\ arrived = [c \in Conns |-> <<>>]
    /\ closeSeen = [c \in Conns |-> {}]
    /\ sideLog = [sd \in {"cloud", "agent"} |-> [c \in Conns |-> <<>>]]
    /\ forged = 0
    /\ bursts = 0
    /\ apiSent = 0
    /\ portHeld = {}
    /\ runStarted = {}
    /\ dUsed = [r \in DirectRules |-> 0]
    /\ dWaited = [r \in DirectRules |-> 0]
    /\ dFwd = [r \in DirectRules |-> 0]
    /\ dpc = "idle"
    /\ cpc = [d \in Dirs |-> "off"]
    /\ cbuf = [d \in Dirs |-> 0]
    /\ dAvail = [d \in Dirs |-> 0]
    /\ dWrites = [d \in Dirs |-> 0]
    /\ dClosed = FALSE
    /\ uQueued = 0
    /\ uSent = 0
    /\ uTarget = FALSE
    /\ uAtTarget = 0
    /\ uReplies = 0
    /\ uSock = {}
    /\ uOut = {}
    /\ uBack = {}
    /\ uDelivered = {}
    /\ uCount = 0
    /\ lpc = [l \in LocalConns |-> "idle"]
    /\ lGen = 0
    /\ lDialled = [l \in LocalConns |-> FALSE]
    /\ lFrames = [l \in LocalConns |-> <<>>]
    /\ lPendUp = [l \in LocalConns |-> 0]
    /\ lAtTarget = [l \in LocalConns |-> 0]
    /\ lPendDown = [l \in LocalConns |-> 0]
    /\ lAtClient = [l \in LocalConns |-> 0]
    /\ lWrites = 0
    /\ rNow = 0
    /\ rTokens = RateLimit
    /\ rLast = 0
    /\ pumpPc = [c \in RateConns |-> "read"]
    /\ rn = [c \in RateConns |-> 0]
    /\ rWake = [c \in RateConns |-> 0]
    /\ sentUp = [t \in 0..MaxTime |-> 0]
    /\ sentDown = [t \in 0..MaxTime |-> 0]
    /\ rReads = 0
    /\ rFrames = 0
    /\ sQueue = <<>>
    /\ sReader = "idle"
    /\ sRoom = [t \in StallTunnels |-> MaxBuffered]
    /\ sStalled = {}
    /\ sWritten = [t \in StallTunnels |-> 0]
    /\ sFrames = 0
    /\ kRules = {}
    /\ kListener = {}
    /\ kUDPConn = {}
    /\ kHeld = {}
    /\ kCall = [op |-> "none", rule |-> <<"none", "none">>, ret |-> "none"]
    /\ bPc = "idle"
    /\ bD = 0
    /\ bMax = 0
    /\ bDelay = 0
    /\ bI = 0
    /\ bLastErr = 0
    /\ bRet = -1
    /\ bWaits = <<>>
    /\ bResults = <<>>
    /\ qStored = 0
    /\ qGen = 0
    /\ qGens = 0
    /\ qUsed = [g \in 1..MaxGens |-> 0]
    /\ qActive = [g \in 1..MaxGens |-> FALSE]
    /\ qStop = "idle"
    /\ qLoaded = 0
    /\ qSaved = [g \in 1..MaxGens |-> -1]
    /\ qPump = [p \in Pumps |-> 0]
    /\ qPc = [p \in Pumps |-> "idle"]
    /\ qReads = 0
    /\ mStarted = FALSE
    /\ mLimit = 0
    /\ mLimiter = FALSE
    /\ mUsed0 = 0
    /\ mUsed = 0
    /\ mPc = [c \in MeterConns |-> "idle"]
    /\ mN = [c \in MeterConns |-> 0]
    /\ mNew = [c \in MeterConns |-> 0]
    /\ mTrail = [c \in MeterConns |-> <<>>]
    /\ mEmitted = 0
    /\ mReads = 0
    /\ wRun = {}
    /\ wPc = [t \in LockTasks |-> "idle"]
    /\ wMode = [t \in LockTasks |-> "none"]
    /\ wRule = [t \in LockTasks |-> "none"]
    /\ wOps = 0
    /\ dEOF = [d \in Dirs |-> FALSE]
    /\ dPut = [d \in Dirs |-> 0]
    /\ dGot = [d \in Dirs |-> 0]
    /\ aEntry = {}
    /\ aChan = [t \in AckTunnels |-> 0]
    /\ aHandler = [t \in AckTunnels |-> "idle"]
    /\ aReader = "idle"
    /\ aFor = "none"
    /\ aQueue = <<>>
    /\ aSent = 0
    /\ nRun = [r \in ListenRules |-> 0]
    /\ nGen = [r \in ListenRules |-> 0]
    /\ nActive = [r \in ListenRules |-> [g \in ListenGens |-> FALSE]]
    /\ nOpen = [r \in ListenRules |-> [g \in ListenGens |-> FALSE]]
    /\ nTask = [r \in ListenRules |-> [g \in ListenGens |-> "none"]]
    /\ nServed = [r \in ListenRules |-> [g \in ListenGens |-> 0]]
    /\ nCall = [op |-> "none", rule |-> "none", ret |-> "none"]

\* The state after Run() with rule r1 enabled in the store and r2 disabled.
Init ==
    /\ InitRest
    /\ enabled = [r \in Rules |-> r = "r1"]
    /\ active = [r \in Rules |-> r = "r1"]
    /\ inRules = [r \in Rules |-> r = "r1"]
    /\ listenerOpen = [r \in Rules |-> r = "r1"]
    /\ runPc = "done"
    /\ runTodo = {}
    /\ lastCall = [r \in Rules |-> IF r = "r1" THEN "nil" ELSE "none"]


\* ------------------------------------------------ the session's writer
\* agent.writeMu.Lock(): the lock is free when no task is inside WriteMessage.
WriteMuNotTaken(a) == TRUE
WriteMuFree(a) == writers[a] = {}

\* sendToAgent, first half: take the session's write lock.
LockWrite(a, t) ==
    /\ t \notin writers[a]
    /\ WriteMuFree(a)
    /\ writers' = [writers EXCEPT ![a] = @ \cup {t}]

\* sendToAgent, second half: WriteMessage and unlock.  The write fails when
\* the session's channel is closed.
WriteOK(a) == connected[a]
WriteAndUnlock(a, t, frame) ==
    /\ t \in writers[a]
    /\ writers' = [writers EXCEPT ![a] = @ \ {t}]
    /\ toAgent' = IF WriteOK(a) THEN [toAgent EXCEPT ![a] = Append(@, frame)]
                  ELSE toAgent

\* ----------------------------------------------- the client (environment)
Accept(c, r) ==
    /\ pc[c] = "idle"
    /\ \A d \in Conns : d < c => pc[d] # "idle"
    /\ listenerOpen[r] /\ active[r]
    /\ pc' = [pc EXCEPT ![c] = "precheck"]
    /\ hRule' = [hRule EXCEPT ![c] = r]
    /\ UNCHANGED <<fwdVars, sessVars, hAgent, tid, chunk, sockVars, agentVars, histVars, otherVars>>

ClientWrite(c, n) ==
    /\ pc[c] # "idle" /\ ~cliEOF[c] /\ ~connClosed[c]
    /\ cliWrites[c] < MaxCliWrites
    /\ cliWrites' = [cliWrites EXCEPT ![c] = @ + 1]
    /\ cliSent' = [cliSent EXCEPT ![c] = @ + n]
    /\ UNCHANGED <<fwdVars, sessVars, taskVars, connClosed, cliEOF, cloudRead,
                   cliRecv, agentVars, histVars, otherVars>>

ClientClose(c) ==
    /\ pc[c] # "idle" /\ ~cliEOF[c]
    /\ cliEOF' = [cliEOF EXCEPT ![c] = TRUE]
    /\ UNCHANGED <<fwdVars, sessVars, taskVars, connClosed, cliWrites, cliSent,
                   cloudRead, cliRecv, agentVars, histVars, otherVars>>

\* ------------------------------------------ handleRemoteTCPConnection
Goto(c, l) == pc' = [pc EXCEPT ![c] = l]

\* forward.go 219-223: the traffic-limit pre-check.
LimitReached(r) == TrafficLimit(r) > 0 /\ trafficUsed[r] >= TrafficLimit(r)
PreCheck(c) ==
    /\ pc[c] = "precheck"
    /\ Goto(c, IF LimitReached(hRule[c]) THEN "closeconn" ELSE "getagent")
    /\ UNCHANGED <<fwdVars, sessVars, hRule, hAgent, tid, chunk, sockVars,
                   agentVars, histVars, otherVars>>

\* Mutant: the handler goes on with the session's record although the Agent
\* is not connected.
GetAgentAny(c) ==
    /\ pc[c] = "getagent"
    /\ hAgent' = [hAgent EXCEPT ![c] = TargetAgentID(hRule[c])]
    /\ Goto(c, "genid")
    /\ UNCHANGED <<fwdVars, sessVars, hRule, tid, chunk, sockVars, agentVars, histVars, otherVars>>

\* forward.go 225-230: agent := f.server.GetAgent(rule.TargetAgentID).
GetAgent(c) ==
    /\ pc[c] = "getagent"
    /\ LET a == TargetAgentID(hRule[c]) IN
       IF connected[a]
       THEN /\ hAgent' = [hAgent EXCEPT ![c] = a]
            /\ Goto(c, "genid")
       ELSE /\ Goto(c, "closeconn")
            /\ UNCHANGED hAgent
    /\ UNCHANGED <<fwdVars, sessVars, hRule, tid, chunk, sockVars, agentVars, histVars, otherVars>>

\* forward.go 233: tunnelID := atomic.AddUint32(&f.tunnelIDGen, 1).
\* Addition of two uint32 values, modulo 2^32.
Add32(g, h) ==
    LET lo == g[2] + h[2]
        hi == g[1] + h[1] + (lo \div Half)
    IN <<hi % Half, lo % Half>>
NextTunnelID(g) == Add32(g, <<0, 1>>)
GenTunnelID(c) ==
    /\ pc[c] = "genid"
    /\ tunnelIDGen' = NextTunnelID(tunnelIDGen)
    /\ tid' = [tid EXCEPT ![c] = NextTunnelID(tunnelIDGen)]
    /\ Goto(c, "pending")
    /\ UNCHANGED <<active, inRules, listenerOpen, trafficUsed, storedTraffic,
                   tunnelConns, pendingAcks, ackChan, sessVars, hRule, hAgent,
                   chunk, sockVars, agentVars, histVars, otherVars>>

\* forward.go 236-239: f.pendingAcks[tunnelID] = ackChan.
RegisterPending(c) ==
    /\ pc[c] = "pending"
    /\ pendingAcks' = MapPut(pendingAcks, [id |-> tid[c], conn |-> c])
    /\ Goto(c, "sendconnect")
    /\ UNCHANGED <<active, inRules, listenerOpen, trafficUsed, storedTraffic,
                   tunnelIDGen, tunnelConns, ackChan, sessVars, hRule, hAgent,
                   tid, chunk, sockVars, agentVars, histVars, otherVars>>

\* forward.go 248-252: send Connect; on error return.
SendConnectLock(c) ==
    /\ pc[c] = "sendconnect"
    /\ LockWrite(hAgent[c], c)
    /\ UNCHANGED <<fwdVars, connected, agentTunnels, activeTunnels, toAgent,
                   toCloud, taskVars, sockVars, agentVars, histVars, otherVars>>

SendConnect(c) ==
    /\ pc[c] = "sendconnect"
    /\ WriteAndUnlock(hAgent[c], c, Frame("Connect", tid[c], 0, 0, TRUE, c))
    /\ Goto(c, IF WriteOK(hAgent[c]) THEN "waitack" ELSE "cleanup_pending")
    /\ UNCHANGED <<fwdVars, connected, agentTunnels, activeTunnels, toCloud,
                   hRule, hAgent, tid, chunk, sockVars, agentVars, histVars, otherVars>>

\* forward.go 255-260: case ack := <-ackChan.
RecvAck(c) ==
    /\ pc[c] = "waitack"
    /\ ackChan[c] # "empty"
    /\ Goto(c, IF ackChan[c] = "ok" THEN "regtunnel" ELSE "cleanup_pending")
    /\ ackChan' = [ackChan EXCEPT ![c] = "empty"]
    /\ acked' = [acked EXCEPT ![c] = IF ackChan[c] = "ok" /\ @ = "handed" THEN "taken" ELSE @]
    /\ ackOutcome' = [ackOutcome EXCEPT ![c] = IF ackChan[c] = "ok" THEN "ok" ELSE "refused"]
    /\ UNCHANGED <<active, inRules, listenerOpen, trafficUsed, storedTraffic,
                   tunnelIDGen, tunnelConns, pendingAcks, sessVars, hRule,
                   hAgent, tid, chunk, sockVars, agentVars, readLog, emitted,
                   arrived, closeSeen, sideLog, envVars, otherVars>>

\* The handler going on to register the tunnel when the deadline passes.
AckTimeoutIgnored(c) ==
    /\ pc[c] = "waitack"
    /\ ackChan[c] = "empty"
    /\ Goto(c, "regtunnel")
    /\ ackOutcome' = [ackOutcome EXCEPT ![c] = "timeout"]
    /\ UNCHANGED <<fwdVars, sessVars, hRule, hAgent, tid, chunk, sockVars,
                   agentVars, readLog, emitted, acked, arrived, closeSeen,
                   sideLog, envVars, otherVars>>

\* forward.go 261-263: case <-time.After(30 * time.Second).
AckTimeout(c) ==
    /\ pc[c] = "waitack"
    /\ ackChan[c] = "empty"
    /\ Goto(c, "cleanup_pending")
    /\ ackOutcome' = [ackOutcome EXCEPT ![c] = "timeout"]
    /\ UNCHANGED <<fwdVars, sessVars, hRule, hAgent, tid, chunk, sockVars,
                   agentVars, readLog, emitted, acked, arrived, closeSeen,
                   sideLog, envVars, otherVars>>

\* forward.go 266-277: f.tunnelConns[tunnelID] = tunnelConn.
RegisterTunnel(c) ==
    /\ pc[c] = "regtunnel"
    /\ tunnelConns' = MapPut(tunnelConns, [id |-> tid[c], agent |-> hAgent[c], conn |-> c])
    /\ Goto(c, "regagent")
    /\ UNCHANGED <<active, inRules, listenerOpen, trafficUsed, storedTraffic,
                   tunnelIDGen, pendingAcks, ackChan, sessVars, hRule, hAgent,
                   tid, chunk, sockVars, agentVars, histVars, otherVars>>

\* forward.go 279-288: agent.tunnels[tunnelID] = ...; agent.ActiveTunnels++.
RegisterAgentTunnel(c) ==
    /\ pc[c] = "regagent"
    /\ agentTunnels' = [agentTunnels EXCEPT ![hAgent[c]] = @ \cup {tid[c]}]
    /\ activeTunnels' = [activeTunnels EXCEPT ![hAgent[c]] = @ + 1]
    /\ Goto(c, "loop")
    /\ UNCHANGED <<fwdVars, connected, writers, toAgent, toCloud, hRule, hAgent,
                   tid, chunk, sockVars, agentVars, histVars, otherVars>>
\* forward.go 306: for state.Active {
LoopTest(c) ==
    /\ pc[c] = "loop"
    /\ Goto(c, IF active[hRule[c]] THEN "read" ELSE "cleanup_tunnel")
    /\ UNCHANGED <<fwdVars, sessVars, hRule, hAgent, tid, chunk, sockVars,
                   agentVars, histVars, otherVars>>

\* forward.go 307-310: n, err := conn.Read(buf).  Read blocks while the socket
\* is open and holds no byte; it fails once Cloud closed the socket, and at
\* the client's EOF after the buffered bytes are drained.
ReadErr(c) == connClosed[c] \/ (cliEOF[c] /\ cloudRead[c] = cliSent[c])
ReadSizes(c) == {Min(cliSent[c] - cloudRead[c], BufSize)}
ConnRead(c) ==
    /\ pc[c] = "read"
    /\ \/ /\ ReadErr(c)
          /\ Goto(c, "cleanup_tunnel")
          /\ UNCHANGED <<chunk, cloudRead, readLog>>
       \/ /\ ~connClosed[c] /\ cloudRead[c] < cliSent[c]
          /\ \E n \in ReadSizes(c) :
                /\ chunk' = [chunk EXCEPT ![c] = [from |-> cloudRead[c] + 1, n |-> n]]
                /\ cloudRead' = [cloudRead EXCEPT ![c] = @ + n]
                /\ readLog' = [readLog EXCEPT ![c] =
                                  Append(@, [from |-> cloudRead[c] + 1, n |-> n])]
          /\ Goto(c, "addtraffic")
    /\ UNCHANGED <<fwdVars, sessVars, hRule, hAgent, tid, connClosed, cliWrites,
                   cliSent, cliEOF, cliRecv, agentVars, emitted, acked, ackOutcome, arrived,
                   closeSeen, sideLog, envVars, otherVars>>

\* forward.go 191-200: addTraffic returns false when the limit is exceeded.
OverLimit(r, newTotal) == TrafficLimit(r) > 0 /\ newTotal > TrafficLimit(r)
addTraffic(c) ==
    /\ pc[c] = "addtraffic"
    /\ LET r == hRule[c]
           newTotal == trafficUsed[r] + chunk[c].n
       IN /\ trafficUsed' = [trafficUsed EXCEPT ![r] = newTotal]
          /\ Goto(c, IF OverLimit(r, newTotal) THEN "cleanup_tunnel" ELSE "senddata")
    /\ UNCHANGED <<active, inRules, listenerOpen, storedTraffic, tunnelIDGen,
                   tunnelConns, pendingAcks, ackChan, sessVars, hRule, hAgent,
                   tid, chunk, sockVars, agentVars, histVars, otherVars>>

\* forward.go 324-327: send Data{tunnelID, buf[:n]}; on error return.
SendDataLock(c) ==
    /\ pc[c] = "senddata"
    /\ LockWrite(hAgent[c], c)
    /\ UNCHANGED <<fwdVars, connected, agentTunnels, activeTunnels, toAgent,
                   toCloud, taskVars, sockVars, agentVars, histVars, otherVars>>

\* Mutant: the whole buffer is sent instead of buf[:n].
DataFrameWholeBuf(c) == Frame("Data", tid[c], chunk[c].from, BufSize, TRUE, c)
DataFrame(c) == Frame("Data", tid[c], chunk[c].from, chunk[c].n, TRUE, c)
SendData(c) ==
    /\ pc[c] = "senddata"
    /\ WriteAndUnlock(hAgent[c], c, DataFrame(c))
    /\ Goto(c, IF WriteOK(hAgent[c]) THEN "loop" ELSE "cleanup_tunnel")
    /\ emitted' = [emitted EXCEPT ![c] =
                      IF WriteOK(hAgent[c]) THEN Append(@, DataFrame(c)) ELSE @]
    /\ sideLog' = IF WriteOK(hAgent[c])
                  THEN [sideLog EXCEPT !["cloud"][c] = Append(@, "Data")]
                  ELSE sideLog
    /\ UNCHANGED <<fwdVars, connected, agentTunnels, activeTunnels, toCloud,
                   hRule, hAgent, tid, chunk, sockVars, agentVars, readLog,
                   acked, ackOutcome, arrived, closeSeen, envVars, otherVars>>

\* forward.go 290-293 (deferred): delete(f.tunnelConns, tunnelID).
CleanupTunnel(c) ==
    /\ pc[c] = "cleanup_tunnel"
    /\ tunnelConns' = MapDel(tunnelConns, tid[c])
    /\ Goto(c, "cleanup_agent")
    /\ UNCHANGED <<active, inRules, listenerOpen, trafficUsed, storedTraffic,
                   tunnelIDGen, pendingAcks, ackChan, sessVars, hRule, hAgent,
                   tid, chunk, sockVars, agentVars, histVars, otherVars>>

\* forward.go 295-298 (deferred): delete(agent.tunnels, tunnelID); ActiveTunnels--.
CleanupAgentTunnel(c) ==
    /\ pc[c] = "cleanup_agent"
    /\ agentTunnels' = [agentTunnels EXCEPT ![hAgent[c]] = @ \ {tid[c]}]
    /\ activeTunnels' = [activeTunnels EXCEPT ![hAgent[c]] = @ - 1]
    /\ Goto(c, "cleanup_close")
    /\ UNCHANGED <<fwdVars, connected, writers, toAgent, toCloud, hRule, hAgent,
                   tid, chunk, sockVars, agentVars, histVars, otherVars>>

\* forward.go 300-301 (deferred): sendToAgent(agent, NewCloseMessage(tunnelID)).
SendCloseLock(c) ==
    /\ pc[c] = "cleanup_close"
    /\ LockWrite(hAgent[c], c)
    /\ UNCHANGED <<fwdVars, connected, agentTunnels, activeTunnels, toAgent,
                   toCloud, taskVars, sockVars, agentVars, histVars, otherVars>>

SendClose(c) ==
    /\ pc[c] = "cleanup_close"
    /\ WriteAndUnlock(hAgent[c], c, Frame("Close", tid[c], 0, 0, TRUE, c))
    /\ Goto(c, "cleanup_pending")
    /\ sideLog' = IF WriteOK(hAgent[c])
                  THEN [sideLog EXCEPT !["cloud"][c] = Append(@, "Close")]
                  ELSE sideLog
    /\ UNCHANGED <<fwdVars, connected, agentTunnels, activeTunnels, toCloud,
                   hRule, hAgent, tid, chunk, sockVars, agentVars, readLog,
                   emitted, acked, ackOutcome, arrived, closeSeen, envVars, otherVars>>

\* The handler leaving without the deferred delete of its rendezvous.
CleanupPendingForgotten(c) ==
    /\ pc[c] = "cleanup_pending"
    /\ Goto(c, "closeconn")
    /\ UNCHANGED <<active, inRules, listenerOpen, trafficUsed, storedTraffic,
                   tunnelIDGen, tunnelConns, pendingAcks, ackChan, sessVars, hRule, hAgent,
                   tid, chunk, sockVars, agentVars, histVars, otherVars>>

\* forward.go 241-245 (deferred): delete(f.pendingAcks, tunnelID).
CleanupPending(c) ==
    /\ pc[c] = "cleanup_pending"
    /\ pendingAcks' = MapDel(pendingAcks, tid[c])
    /\ Goto(c, "closeconn")
    /\ UNCHANGED <<active, inRules, listenerOpen, trafficUsed, storedTraffic,
                   tunnelIDGen, tunnelConns, ackChan, sessVars, hRule, hAgent,
                   tid, chunk, sockVars, agentVars, histVars, otherVars>>

\* forward.go 217 (deferred): conn.Close().
CloseConn(c) ==
    /\ pc[c] = "closeconn"
    /\ connClosed' = [connClosed EXCEPT ![c] = TRUE]
    /\ Goto(c, "done")
    /\ UNCHANGED <<fwdVars, sessVars, hRule, hAgent, tid, chunk, cliWrites,
                   cliSent, cliEOF, cloudRead, cliRecv, agentVars, histVars, otherVars>>
\* --------------------------------- the Cloud dispatcher of one session
\* The reader task of session a takes the frames of the channel in order.
HeadIs(a, t) == connected[a] /\ toCloud[a] # <<>> /\ Head(toCloud[a]).type = t
PopCloud(a) == toCloud' = [toCloud EXCEPT ![a] = Tail(@)]

\* The handler tasks that have not begun to tear down.
Live == {"waitack", "regtunnel", "regagent", "loop", "read", "addtraffic", "senddata"}

\* forward.go 558-571: HandleConnectAck.  ch <- ack blocks while the channel
\* (capacity 1) is full.
HandleConnectAck(a) ==
    /\ HeadIs(a, "ConnectAck")
    /\ LET msg == Head(toCloud[a]) IN
       IF MapHas(pendingAcks, msg.id)
       THEN LET c == MapGet(pendingAcks, msg.id).conn IN
            /\ ackChan[c] = "empty"
            /\ ackChan' = [ackChan EXCEPT ![c] = IF msg.ok THEN "ok" ELSE "fail"]
            /\ acked' = [acked EXCEPT ![c] = IF msg.ok /\ hAgent[c] = a THEN "handed" ELSE @]
       ELSE UNCHANGED <<ackChan, acked>>
    /\ PopCloud(a)
    /\ UNCHANGED <<active, inRules, listenerOpen, trafficUsed, storedTraffic,
                   tunnelIDGen, tunnelConns, pendingAcks, connected, agentTunnels,
                   activeTunnels, writers, toAgent, taskVars, sockVars, agentVars,
                   readLog, emitted, ackOutcome, arrived, closeSeen, sideLog, envVars,
                   otherVars>>

\* conn.Write fails once the socket is closed on either end.
ConnWriteFails(c) == connClosed[c] \/ cliEOF[c]

\* The tunnel table entry HandleData writes to.
DataTarget(a, msg) == IF MapHas(tunnelConns, msg.id) THEN {MapGet(tunnelConns, msg.id).conn}
                      ELSE {}

\* forward.go 517-530: HandleData.
HandleData(a) ==
    /\ HeadIs(a, "Data")
    /\ LET msg == Head(toCloud[a])
           dst == DataTarget(a, msg)
       IN /\ cliRecv' = [c \in Conns |->
                IF c \in dst /\ ~ConnWriteFails(c)
                THEN Append(cliRecv[c], [from |-> msg.from, n |-> msg.n, by |-> a])
                ELSE cliRecv[c]]
          /\ connClosed' = [c \in Conns |->
                connClosed[c] \/ (c \in dst /\ ConnWriteFails(c))]
          \* history: a frame of the tunnel's own Agent, after the ack, while
          \* the client socket is open and the handler has not begun teardown
          /\ arrived' = [c \in Conns |->
                IF /\ tid[c] = msg.id /\ hAgent[c] = a /\ acked[c] # "no"
                   /\ pc[c] \in Live /\ ~ConnWriteFails(c)
                THEN Append(arrived[c], [from |-> msg.from, n |-> msg.n, by |-> a])
                ELSE arrived[c]]
    /\ PopCloud(a)
    /\ UNCHANGED <<fwdVars, connected, agentTunnels, activeTunnels, writers,
                   toAgent, taskVars, cliWrites, cliSent, cliEOF, cloudRead,
                   agentVars, readLog, emitted, acked, ackOutcome, closeSeen, sideLog, envVars, otherVars>>

\* HandleClose answering the peer's Close with a Close of its own.
HandleCloseEchoes(a) ==
    /\ HeadIs(a, "Close")
    /\ LET msg == Head(toCloud[a]) IN
       /\ IF MapHas(tunnelConns, msg.id)
          THEN /\ connClosed' = [connClosed EXCEPT ![MapGet(tunnelConns, msg.id).conn] = TRUE]
               /\ tunnelConns' = MapDel(tunnelConns, msg.id)
          ELSE UNCHANGED <<connClosed, tunnelConns>>
       /\ IF msg.id \in agentTunnels[a]
          THEN /\ agentTunnels' = [agentTunnels EXCEPT ![a] = @ \ {msg.id}]
               /\ activeTunnels' = [activeTunnels EXCEPT ![a] = @ - 1]
          ELSE UNCHANGED <<agentTunnels, activeTunnels>>
       /\ closeSeen' = [c \in Conns |->
             IF c = msg.c THEN closeSeen[c] \cup {"cloud"} ELSE closeSeen[c]]
       /\ toAgent' = [toAgent EXCEPT ![a] = Append(@, Frame("Close", msg.id, 0, 0, TRUE, msg.c))]
       /\ sideLog' = IF MapHas(tunnelConns, msg.id)
                     THEN [sideLog EXCEPT !["cloud"][MapGet(tunnelConns, msg.id).conn] =
                              Append(@, "Close")]
                     ELSE sideLog
    /\ PopCloud(a)
    /\ UNCHANGED <<active, inRules, listenerOpen, trafficUsed, storedTraffic,
                   tunnelIDGen, pendingAcks, ackChan, connected, writers,
                   taskVars, cliWrites, cliSent, cliEOF, cloudRead, cliRecv,
                   agentVars, readLog, emitted, acked, ackOutcome, arrived, envVars, otherVars>>

\* Mutant: HandleClose without the test that the session holds the tunnel.
HandleCloseBlind(a) ==
    /\ HeadIs(a, "Close")
    /\ LET msg == Head(toCloud[a]) IN
       /\ IF MapHas(tunnelConns, msg.id)
          THEN /\ connClosed' = [connClosed EXCEPT ![MapGet(tunnelConns, msg.id).conn] = TRUE]
               /\ tunnelConns' = MapDel(tunnelConns, msg.id)
          ELSE UNCHANGED <<connClosed, tunnelConns>>
       /\ agentTunnels' = [agentTunnels EXCEPT ![a] = @ \ {msg.id}]
       /\ activeTunnels' = [activeTunnels EXCEPT ![a] = @ - 1]
       /\ closeSeen' = [c \in Conns |->
             IF c = msg.c THEN closeSeen[c] \cup {"cloud"} ELSE closeSeen[c]]
    /\ PopCloud(a)
    /\ UNCHANGED <<active, inRules, listenerOpen, trafficUsed, storedTraffic,
                   tunnelIDGen, pendingAcks, ackChan, connected, writers, toAgent,
                   taskVars, cliWrites, cliSent, cliEOF, cloudRead, cliRecv,
                   agentVars, readLog, emitted, acked, ackOutcome, arrived, sideLog, envVars, otherVars>>

\* forward.go 574-589: HandleClose.
HandleClose(a) ==
    /\ HeadIs(a, "Close")
    /\ LET msg == Head(toCloud[a]) IN
       /\ IF MapHas(tunnelConns, msg.id)
          THEN /\ connClosed' = [connClosed EXCEPT ![MapGet(tunnelConns, msg.id).conn] = TRUE]
               /\ tunnelConns' = MapDel(tunnelConns, msg.id)
          ELSE UNCHANGED <<connClosed, tunnelConns>>
       /\ IF msg.id \in agentTunnels[a]
          THEN /\ agentTunnels' = [agentTunnels EXCEPT ![a] = @ \ {msg.id}]
               /\ activeTunnels' = [activeTunnels EXCEPT ![a] = @ - 1]
          ELSE UNCHANGED <<agentTunnels, activeTunnels>>
       /\ closeSeen' = [c \in Conns |->
             IF c = msg.c THEN closeSeen[c] \cup {"cloud"} ELSE closeSeen[c]]
    /\ PopCloud(a)
    /\ UNCHANGED <<active, inRules, listenerOpen, trafficUsed, storedTraffic,
                   tunnelIDGen, pendingAcks, ackChan, connected, writers, toAgent,
                   taskVars, cliWrites, cliSent, cliEOF, cloudRead, cliRecv,
                   agentVars, readLog, emitted, acked, ackOutcome, arrived, sideLog, envVars, otherVars>>

\* StopRule without delete(f.rules, ruleID).
StopRuleKeepsEntry(r) ==
    /\ inRules[r]
    /\ active' = [active EXCEPT ![r] = FALSE]
    /\ listenerOpen' = [listenerOpen EXCEPT ![r] = FALSE]
    /\ storedTraffic' = [storedTraffic EXCEPT ![r] = trafficUsed[r]]
    /\ lastCall' = [lastCall EXCEPT ![r] = "stopped"]
    /\ UNCHANGED <<inRules, trafficUsed, tunnelIDGen, tunnelConns, pendingAcks, ackChan,
                   sessVars, taskVars, sockVars, agentVars, histVars, enabled,
                   portHeld, runPc, runTodo, runStarted, exceptRule>>

\* forward.go 162-187: StopRule.
StopRule(r) ==
    /\ inRules[r]
    /\ active' = [active EXCEPT ![r] = FALSE]
    /\ listenerOpen' = [listenerOpen EXCEPT ![r] = FALSE]
    /\ storedTraffic' = [storedTraffic EXCEPT ![r] = trafficUsed[r]]
    /\ inRules' = [inRules EXCEPT ![r] = FALSE]
    /\ lastCall' = [lastCall EXCEPT ![r] = "stopped"]
    /\ UNCHANGED <<trafficUsed, tunnelIDGen, tunnelConns, pendingAcks, ackChan,
                   sessVars, taskVars, sockVars, agentVars, histVars, enabled,
                   portHeld, runPc, runTodo, runStarted, exceptRule>>

\* A burst of 2^32 - 1 accepted connections that the target refuses: each
\* passes forward.go 219-233 (pre-check, GetAgent, id allocation), is refused by
\* its ConnectAck and releases everything it took.  What stays is the id
\* counter.  A burst takes long: the only handlers that stay where they are
\* meanwhile are those blocked in conn.Read.
RefusedBurst(r) ==
    /\ bursts < MaxBursts
    /\ \A c \in Conns : pc[c] \in {"idle", "read", "done"}
    /\ listenerOpen[r] /\ active[r] /\ ~LimitReached(r)
    /\ connected[TargetAgentID(r)]
    /\ toAgent[TargetAgentID(r)] = <<>> /\ toCloud[TargetAgentID(r)] = <<>>
    /\ tunnelIDGen' = Add32(tunnelIDGen, <<Half - 1, Half - 1>>)
    /\ bursts' = bursts + 1
    /\ UNCHANGED <<active, inRules, listenerOpen, trafficUsed, storedTraffic,
                   tunnelConns, pendingAcks, ackChan, sessVars, taskVars,
                   sockVars, agentVars, readLog, emitted, acked, ackOutcome, arrived,
                   closeSeen, sideLog, forged, apiSent, otherVars>>
\* ------------------------------------------------------ the Agent side
\* The Agent's dispatch loop takes the frames of the channel in order; it is
\* one task, so it takes no frame while the answer to a Connect is unsent.
AgentHeadIs(a, t) ==
    /\ connected[a] /\ ackDue[a] = <<>>
    /\ toAgent[a] # <<>> /\ Head(toAgent[a]).type = t
PopAgent(a) == toAgent' = [toAgent EXCEPT ![a] = Tail(@)]

\* client.sendMessage: the frame goes on the channel unless the channel is lost.
AgentSend(a, frame) ==
    toCloud' = IF connected[a] THEN [toCloud EXCEPT ![a] = Append(@, frame)] ELSE toCloud

\* part_004 229-251: RemoteProxy.HandleConnect.  The socket dialled for the
\* Connect of connection c is socket c.  A successful dial registers the tunnel
\* and starts readFromLocal before HandleConnect returns; the ConnectAck is
\* sent by the caller afterwards.
RemoteHandleConnect(a) ==
    /\ AgentHeadIs(a, "Connect")
    /\ LET msg == Head(toAgent[a]) IN
       \E dialed \in BOOLEAN :
          /\ IF dialed
             THEN /\ rpTunnels' = [rpTunnels EXCEPT ![a] =
                                      MapPut(@, [id |-> msg.id, conn |-> msg.c])]
                  /\ rpc' = [rpc EXCEPT ![msg.c] = "read"]
             ELSE UNCHANGED <<rpTunnels, rpc>>
          /\ ackDue' = [ackDue EXCEPT ![a] = <<Frame("ConnectAck", msg.id, 0, 0, dialed, msg.c)>>]
    /\ PopAgent(a)
    /\ UNCHANGED <<fwdVars, connected, agentTunnels, activeTunnels, writers,
                   toCloud, taskVars, sockVars, localClosed, tgtWrites, tgtSent,
                   tgtEOF, agentRead, tgtRecv, histVars, otherVars>>

\* The caller of HandleConnect replies ConnectAck{success, error}.
AgentSendAck(a) ==
    /\ ackDue[a] # <<>>
    /\ AgentSend(a, Head(ackDue[a]))
    /\ ackDue' = [ackDue EXCEPT ![a] = <<>>]
    /\ UNCHANGED <<fwdVars, connected, agentTunnels, activeTunnels, writers,
                   toAgent, taskVars, sockVars, rpTunnels, rpc, localClosed,
                   tgtWrites, tgtSent, tgtEOF, agentRead, tgtRecv, histVars, otherVars>>

\* LocalConn.Write fails once the socket is closed on either end.
LocalWriteFails(s) == localClosed[s] \/ tgtEOF[s]

\* part_004 280-291: RemoteProxy.HandleData returns an error for an unknown
\* tunnel-id and for a failed write.  On an error the caller closes the tunnel
\* (HandleClose) and emits Close.
RemoteHandleData(a) ==
    /\ AgentHeadIs(a, "Data")
    /\ LET msg == Head(toAgent[a])
           known == MapHas(rpTunnels[a], msg.id)
           s == IF known THEN MapGet(rpTunnels[a], msg.id).conn ELSE 0
       IN IF known /\ ~LocalWriteFails(s)
          THEN /\ tgtRecv' = [tgtRecv EXCEPT ![s] = Append(@, [from |-> msg.from, n |-> msg.n])]
               /\ UNCHANGED <<localClosed, rpTunnels, toCloud>>
          ELSE /\ localClosed' = [c \in Conns |-> localClosed[c] \/ (known /\ c = s)]
               /\ rpTunnels' = [rpTunnels EXCEPT ![a] = MapDel(@, msg.id)]
               /\ AgentSend(a, Frame("Close", msg.id, 0, 0, TRUE, msg.c))
               /\ UNCHANGED tgtRecv
    /\ PopAgent(a)
    /\ UNCHANGED <<fwdVars, connected, agentTunnels, activeTunnels, writers,
                   taskVars, sockVars, rpc, tgtWrites, tgtSent, tgtEOF, agentRead,
                   ackDue, histVars, otherVars>>

\* part_004 294-302: RemoteProxy.HandleClose.
RemoteHandleClose(a) ==
    /\ AgentHeadIs(a, "Close")
    /\ LET msg == Head(toAgent[a]) IN
       /\ IF MapHas(rpTunnels[a], msg.id)
          THEN /\ localClosed' = [localClosed EXCEPT ![MapGet(rpTunnels[a], msg.id).conn] = TRUE]
               /\ rpTunnels' = [rpTunnels EXCEPT ![a] = MapDel(@, msg.id)]
          ELSE UNCHANGED <<localClosed, rpTunnels>>
       /\ closeSeen' = [c \in Conns |->
             IF c = msg.c THEN closeSeen[c] \cup {"agent"} ELSE closeSeen[c]]
    /\ PopAgent(a)
    /\ UNCHANGED <<fwdVars, connected, agentTunnels, activeTunnels, writers,
                   toCloud, taskVars, sockVars, rpc, tgtWrites, tgtSent, tgtEOF,
                   agentRead, tgtRecv, ackDue, readLog, emitted, acked, ackOutcome, arrived,
                   sideLog, envVars, otherVars>>

\* part_004 265-276: the loop of readFromLocal for socket s: Read, then send
\* Data; a read error or a send error ends the loop.  The tunnel of socket s has
\* the id and the Agent of the Connect that opened it.
LocalReadErr(s) == localClosed[s] \/ (tgtEOF[s] /\ agentRead[s] = tgtSent[s])
readFromLocal(s) ==
    /\ rpc[s] = "read"
    /\ \/ /\ LocalReadErr(s)
          /\ rpc' = [rpc EXCEPT ![s] = "cleanup"]
          /\ UNCHANGED <<agentRead, toCloud, sideLog>>
       \/ /\ ~localClosed[s] /\ agentRead[s] < tgtSent[s]
          /\ LET n == Min(tgtSent[s] - agentRead[s], BufSize) IN
             /\ agentRead' = [agentRead EXCEPT ![s] = @ + n]
             /\ AgentSend(hAgent[s], Frame("Data", tid[s], agentRead[s] + 1, n, TRUE, s))
          /\ sideLog' = IF connected[hAgent[s]]
                        THEN [sideLog EXCEPT !["agent"][s] = Append(@, "Data")]
                        ELSE sideLog
          /\ rpc' = [rpc EXCEPT ![s] = IF connected[hAgent[s]] THEN "read" ELSE "cleanup"]
    /\ UNCHANGED <<fwdVars, connected, agentTunnels, activeTunnels, writers,
                   toAgent, taskVars, sockVars, rpTunnels, localClosed, tgtWrites,
                   tgtSent, tgtEOF, tgtRecv, ackDue, readLog, emitted, acked, ackOutcome,
                   arrived, closeSeen, envVars, otherVars>>

\* part_004 254-263 (deferred): close the socket, evict the tunnel, send Close.
readFromLocalExit(s) ==
    /\ rpc[s] = "cleanup"
    /\ localClosed' = [localClosed EXCEPT ![s] = TRUE]
    /\ rpTunnels' = [rpTunnels EXCEPT ![hAgent[s]] = MapDel(@, tid[s])]
    /\ AgentSend(hAgent[s], Frame("Close", tid[s], 0, 0, TRUE, s))
    /\ rpc' = [rpc EXCEPT ![s] = "done"]
    /\ sideLog' = IF connected[hAgent[s]]
                  THEN [sideLog EXCEPT !["agent"][s] = Append(@, "Close")]
                  ELSE sideLog
    /\ UNCHANGED <<fwdVars, connected, agentTunnels, activeTunnels, writers,
                   toAgent, taskVars, sockVars, tgtWrites, tgtSent, tgtEOF,
                   agentRead, tgtRecv, ackDue, readLog, emitted, acked, ackOutcome, arrived,
                   closeSeen, envVars, otherVars>>

\* ----------------------------------------------- the target (environment)
TargetWrite(s, n) ==
    /\ rpc[s] = "read" /\ ~localClosed[s] /\ ~tgtEOF[s]
    /\ tgtWrites[s] < MaxTgtWrites
    /\ tgtWrites' = [tgtWrites EXCEPT ![s] = @ + 1]
    /\ tgtSent' = [tgtSent EXCEPT ![s] = @ + n]
    /\ UNCHANGED <<fwdVars, sessVars, taskVars, sockVars, rpTunnels, rpc,
                   localClosed, tgtEOF, agentRead, tgtRecv, ackDue, histVars, otherVars>>

TargetClose(s) ==
    /\ rpc[s] = "read" /\ ~tgtEOF[s]
    /\ tgtEOF' = [tgtEOF EXCEPT ![s] = TRUE]
    /\ UNCHANGED <<fwdVars, sessVars, taskVars, sockVars, rpTunnels, rpc,
                   localClosed, tgtWrites, tgtSent, agentRead, tgtRecv, ackDue,
                   histVars, otherVars>>

\* --------------------------------------------------- the Agent session
\* The session's channel closes.  Cloud: the session leaves the registry and,
\* as section 4.4 of the specification has it, every tunnel the session owns is
\* closed locally and removed from the tunnel table.  The frames in flight are
\* lost with the channel.
OwnedBy(a) == {e \in tunnelConns : e.agent = a}
SessionClose(a) ==
    /\ connected[a]
    /\ connected' = [connected EXCEPT ![a] = FALSE]
    /\ connClosed' = [c \in Conns |-> connClosed[c] \/ (\E e \in OwnedBy(a) : e.conn = c)]
    /\ tunnelConns' = tunnelConns \ OwnedBy(a)
    /\ toAgent' = [toAgent EXCEPT ![a] = <<>>]
    /\ toCloud' = [toCloud EXCEPT ![a] = <<>>]
    /\ UNCHANGED <<active, inRules, listenerOpen, trafficUsed, storedTraffic,
                   tunnelIDGen, pendingAcks, ackChan, agentTunnels, activeTunnels,
                   writers, taskVars, cliWrites, cliSent, cliEOF, cloudRead,
                   cliRecv, agentVars, histVars, otherVars>>

\* An Agent puts on its channel a frame that names a tunnel-id of a connection
\* whose target is another Agent.
ForeignIds(a) == {tid[c] : c \in {d \in Conns : pc[d] \in Live /\ hAgent[d] # a}}
Forge(a, t, i) ==
    /\ connected[a]
    /\ forged < MaxForged
    /\ i \in ForeignIds(a)
    /\ toCloud' = [toCloud EXCEPT ![a] = Append(@, Frame(t, i, 1, 1, TRUE, 0))]
    /\ forged' = forged + 1
    /\ UNCHANGED <<fwdVars, connected, agentTunnels, activeTunnels, writers,
                   toAgent, taskVars, sockVars, agentVars, readLog, emitted,
                   acked, ackOutcome, arrived, closeSeen, sideLog, bursts, apiSent, otherVars>>

\* ----------------------------------------------------- specification
Handler(c) ==
    \/ PreCheck(c) \/ GetAgent(c) \/ GenTunnelID(c) \/ RegisterPending(c)
    \/ SendConnectLock(c) \/ SendConnect(c) \/ RecvAck(c) \/ AckTimeout(c)
    \/ RegisterTunnel(c) \/ RegisterAgentTunnel(c) \/ LoopTest(c) \/ ConnRead(c)
    \/ addTraffic(c) \/ SendDataLock(c) \/ SendData(c)
    \/ CleanupTunnel(c) \/ CleanupAgentTunnel(c) \/ SendCloseLock(c) \/ SendClose(c)
    \/ CleanupPending(c) \/ CloseConn(c)

Dispatcher(a) == HandleConnectAck(a) \/ HandleData(a) \/ HandleClose(a)

AgentTask(a) ==
    \/ RemoteHandleConnect(a) \/ AgentSendAck(a)
    \/ RemoteHandleData(a) \/ RemoteHandleClose(a)

ClientEnv(C) ==
    \/ \E c \in C, r \in Rules : Accept(c, r)
    \/ \E c \in C, n \in {1, BufSize} : ClientWrite(c, n)
    \/ \E c \in C : ClientClose(c)

TargetEnv(C) ==
    \/ \E s \in C, n \in {1, BufSize} : TargetWrite(s, n)
    \/ \E s \in C : TargetClose(s)

Cloud ==
    \/ \E c \in Conns : Handler(c)
    \/ \E a \in Agents : Dispatcher(a)

Agent ==
    \/ \E a \in Agents : AgentTask(a)
    \/ \E s \in Conns : readFromLocal(s) \/ readFromLocalExit(s)

Forgery ==
    \E a \in Agents, t \in {"Data", "Close", "ConnectAck"} :
       \E i \in ForeignIds(a) : Forge(a, t, i)

\* One tunnel, both directions, ended by the client or by the target.
Next ==
    \/ ClientEnv({1})
    \/ TargetEnv({1})
    \/ Cloud
    \/ Agent

Spec == Init /\ [][Next]_vars

\* One tunnel as above, and the rule is stopped or the Agent's session closes.
NextFaults ==
    \/ ClientEnv({1})
    \/ TargetEnv({1})
    \/ Cloud
    \/ Agent
    \/ \E r \in Rules : StopRule(r)
    \/ SessionClose("a1")

SpecFaults == Init /\ [][NextFaults]_vars


\* ------------------------------------------------------------- claims
Chunks(fs) == [i \in 1..Len(fs) |-> [from |-> fs[i].from, n |-> fs[i].n]]

\* C1: the Data frames the Cloud pump emits for a tunnel carry, in order and
\* one frame per chunk read, the bytes read from the client socket: the chunks
\* read are consecutive intervals of the client's byte stream, the payloads
\* emitted are a prefix of them that misses at most the chunk in hand, every
\* frame carries the tunnel's id, and a pump that is back at its read has
\* emitted everything it read.
C1_ByteFidelity ==
    \A c \in Conns :
        /\ Contiguous(readLog[c], 1)
        /\ SumN(readLog[c]) = cloudRead[c] /\ cloudRead[c] <= cliSent[c]
        /\ IsPrefix(Chunks(emitted[c]), readLog[c])
        /\ Len(readLog[c]) - Len(emitted[c]) <= 1
        /\ \A i \in 1..Len(emitted[c]) :
              emitted[c][i].type = "Data" /\ emitted[c][i].id = tid[c]
        /\ pc[c] \in {"loop", "read"} => Chunks(emitted[c]) = readLog[c]

\* Two chunks were read and both were emitted, and the handler has ended.
C1_Witness ==
    \E c \in Conns : pc[c] = "done" /\ Len(emitted[c]) = 2 /\ Len(readLog[c]) = 2
\* The chunks written to the client socket that came in frames of Agent a.
RECURSIVE ChunksBy(_, _)
ChunksBy(s, a) ==
    IF s = <<>> THEN <<>>
    ELSE IF Head(s).by = a THEN <<Head(s)>> \o ChunksBy(Tail(s), a)
         ELSE ChunksBy(Tail(s), a)

\* C2: every Data frame of a tunnel's Agent that reaches the Cloud dispatcher
\* after the tunnel's ConnectAck{success:true}, while the client socket is open
\* and the handler has not begun to tear the tunnel down, is written to the
\* client socket, in arrival order.
C2_AckedDataDelivered ==
    \A c \in Conns : ChunksBy(cliRecv[c], hAgent[c]) = arrived[c]

\* Bytes the rule forwarded: Data emitted towards the Agent and Data written to
\* the client sockets, over all connections of the rule.
RECURSIVE SumOver(_, _)
SumOver(f, S) ==
    IF S = {} THEN 0
    ELSE LET c == CHOOSE x \in S : TRUE IN f[c] + SumOver(f, S \ {c})
Forwarded(r) ==
    LET mine == {c \in Conns : hRule[c] = r}
    IN SumOver([c \in Conns |-> SumN(emitted[c]) + SumN(cliRecv[c])], mine)
AllTornDown(r) ==
    /\ \A c \in Conns : hRule[c] = r => pc[c] \in {"idle", "done"}
    /\ \E c \in Conns : hRule[c] = r /\ pc[c] = "done"

\* C5: once all tunnels of a rule are torn down, traffic-used is at least the
\* bytes the rule forwarded in both directions, and exceeds them by at most one
\* buffer.
C5_TrafficAccounting ==
    \A r \in Rules :
        AllTornDown(r) =>
            /\ trafficUsed[r] - InitialTrafficUsed(r) >= Forwarded(r)
            /\ trafficUsed[r] - InitialTrafficUsed(r) - Forwarded(r) <= BufSize
\* The tasks of Cloud and of the Agent are scheduled fairly, each on its own.
TaskFairness ==
    /\ \A c \in Conns : WF_vars(Handler(c))
    /\ \A a \in Agents : WF_vars(Dispatcher(a)) /\ WF_vars(AgentTask(a))
    /\ \A s \in Conns : WF_vars(readFromLocal(s) \/ readFromLocalExit(s))

\* Clients, targets and operators owe nothing.
FairSpec == Spec /\ TaskFairness

FairFaults == SpecFaults /\ TaskFairness

TearingDown == {"cleanup_tunnel", "cleanup_agent", "cleanup_close",
                "cleanup_pending", "closeconn", "done"}

\* One end has ended the tunnel of connection c: the Cloud handler left its
\* pump, or the Agent's socket reader left its loop.
Ended(c) == pc[c] \in TearingDown \/ rpc[c] \in {"cleanup", "done"}

\* C3: for every Connect whose handler received ConnectAck{success:true}, once
\* either end ends the tunnel a Close for it is observed at Cloud and at the
\* Agent, and its tunnel-table entry is removed.
C3_NoLeakedTunnels ==
    \A c \in Conns :
        (acked[c] = "taken" /\ Ended(c)) ~>
            (closeSeen[c] = {"cloud", "agent"} /\ ~MapHas(tunnelConns, tid[c]))

\* ------------------------------------------ two connections of one rule
\* forward.go 592-607: Forwarder.SendToAgent, called by a task that is not a
\* connection handler (task 0): GetAgent, then agent.writeMu.Lock().
SendToAgentLock(a) ==
    /\ apiSent < MaxApiSends
    /\ connected[a]
    /\ 0 \notin writers[a]
    /\ WriteMuFree(a)
    /\ writers' = [writers EXCEPT ![a] = @ \cup {0}]
    /\ UNCHANGED <<fwdVars, connected, agentTunnels, activeTunnels, toAgent,
                   toCloud, taskVars, sockVars, agentVars, histVars, otherVars>>

\* forward.go 604-606: WriteMessage, then the deferred Unlock.
SendToAgentWrite(a) ==
    /\ 0 \in writers[a]
    /\ writers' = [writers EXCEPT ![a] = @ \ {0}]
    /\ toAgent' = IF WriteOK(a)
                  THEN [toAgent EXCEPT ![a] = Append(@, Frame("Ping", <<0, 0>>, 0, 0, TRUE, 0))]
                  ELSE toAgent
    /\ apiSent' = apiSent + 1
    /\ UNCHANGED <<fwdVars, connected, agentTunnels, activeTunnels, toCloud,
                   taskVars, sockVars, agentVars, readLog, emitted, acked, ackOutcome,
                   arrived, closeSeen, sideLog, forged, bursts, otherVars>>

\* The Agent's dispatch loop takes a frame that concerns no tunnel.
AgentOther(a) ==
    /\ AgentHeadIs(a, "Ping")
    /\ PopAgent(a)
    /\ UNCHANGED <<fwdVars, connected, agentTunnels, activeTunnels, writers,
                   toCloud, taskVars, sockVars, agentVars, histVars, otherVars>>

\* Two clients connect to the rule.  The first one sends whole buffers and its
\* target answers; the second one is idle.
NextTwo ==
    \/ \E c \in Conns, r \in Rules : Accept(c, r)
    \/ ClientWrite(1, BufSize)
    \/ TargetWrite(1, 1)
    \/ Cloud
    \/ Agent

SpecTwo == Init /\ [][NextTwo]_vars


\* Two clients as above, while another task of Cloud sends through
\* Forwarder.SendToAgent.
NextSenders ==
    \/ NextTwo
    \/ \E a \in Agents : SendToAgentLock(a) \/ SendToAgentWrite(a) \/ AgentOther(a)

SpecSenders == Init /\ [][NextSenders]_vars

\* Two clients as above, while connections that the target refuses come and go.
NextWrap ==
    \/ NextTwo
    \/ \E r \in Rules : RefusedBurst(r)

SpecWrap == Init /\ [][NextWrap]_vars

Registered(c) == \E e \in tunnelConns : e.conn = c

\* C4: once traffic-used of a rule has reached its non-zero traffic-limit, no
\* connection of the rule that is not yet in the tunnel table is entered into
\* it, and no Data is forwarded for it in either direction; this covers
\* connections not accepted yet and connections waiting for their ConnectAck.
C4_TrafficCap ==
    [][\A r \in Rules, c \in Conns :
          (LimitReached(r) /\ (pc[c] = "idle" \/ hRule[c] = r) /\ ~Registered(c))
             => /\ \A e \in tunnelConns' : e.conn # c
                /\ emitted'[c] = emitted[c]
                /\ cliRecv'[c] = cliRecv[c]]_vars

\* One tunnel to Agent a1, while Agent a2 sends frames that name its tunnel-id.
NextForge ==
    \/ Next
    \/ Forgery

SpecForge == Init /\ [][NextForge]_vars

EntryOf(T, c) == {e \in T : e.conn = c}

\* C6: a step of the dispatcher on a frame received from Agent a leaves alone
\* every connection whose target Agent is another one: its client socket and
\* what was written to it, its tunnel-table entry, its pending-ack rendezvous
\* and the tunnel set of its Agent's session.
C6_SessionIsolation ==
    [][\A a \in Agents :
          Dispatcher(a) =>
             \A c \in Conns :
                (pc[c] # "idle" /\ hAgent[c] \in Agents \ {a})
                   => /\ cliRecv'[c] = cliRecv[c]
                      /\ connClosed'[c] = connClosed[c]
                      /\ EntryOf(tunnelConns', c) = EntryOf(tunnelConns, c)
                      /\ EntryOf(pendingAcks', c) = EntryOf(pendingAcks, c)
                      /\ ackChan'[c] = ackChan[c]
                      /\ agentTunnels'[hAgent[c]] = agentTunnels[hAgent[c]]]_vars

PendingOf(a) == {e \in pendingAcks : hAgent[e.conn] = a}

\* C7: when the session of an Agent has closed, eventually every client socket
\* of its tunnels is closed, the tunnel table holds no entry owned by the
\* session and no pending-ack entry for it remains, and it stays so.
C7_SessionCloseTearsDown ==
    \A a \in Agents :
        ~connected[a] ~>
            [](/\ OwnedBy(a) = {}
               /\ PendingOf(a) = {}
               /\ \A c \in Conns : (pc[c] # "idle" /\ hAgent[c] = a) => connClosed[c])

\* C8: after StopRule(r) every established tunnel of rule r is torn down: its
\* handler leaves the pump, closes the client socket, removes the entries and
\* sends Close, also when the client sends nothing more.
C8_StopRuleTearsDown ==
    \A c \in Conns :
        (pc[c] # "idle" /\ ~active[hRule[c]] /\ Registered(c)) ~> (pc[c] = "done")

\* Connection c is pending (its rendezvous is in pendingAcks and it awaits the
\* ConnectAck) or established.
HoldsId(c) == pc[c] \in {"sendconnect"} \cup Live

\* C9: two connections that are pending or established at the same time have
\* different tunnel-ids, also after the 32-bit counter has wrapped around.
C9_UniqueTunnelIds ==
    \A c, d \in Conns :
        (c # d /\ HoldsId(c) /\ HoldsId(d)) => tid[c] # tid[d]

Sending == {"sendconnect", "senddata", "cleanup_close"}

CloseIsLast(log) ==
    \A i, j \in 1..Len(log) : (i < j /\ log[i] = "Close") => log[j] # "Data"

\* C11: on each side, the task of a tunnel (the Cloud pump, the Agent's socket
\* reader) puts Close on the channel after every Data frame it produced for
\* the tunnel and produces no Data frame after its Close.
C11_CloseAfterData ==
    \A sd \in {"cloud", "agent"}, c \in Conns : CloseIsLast(sideLog[sd][c])

\* Both sides sent Data and then Close for the same tunnel.
C11_Witness ==
    \E c \in Conns :
        /\ sideLog["cloud"][c] = <<"Data", "Close">>
        /\ sideLog["agent"][c] = <<"Data", "Close">>

\* C12: when the handler of a connection has ended, by whichever path, the
\* client socket is closed and neither the tunnel table, nor the tunnel set of
\* the session, nor the pending-ack table holds an entry of that connection
\* (an entry under its tunnel-id, unless a connection whose handler has not
\* ended was given the same id).
C12_HandlerReleasesAll ==
    \A c \in Conns :
        pc[c] = "done" =>
            /\ connClosed[c]
            /\ EntryOf(tunnelConns, c) = {}
            /\ EntryOf(pendingAcks, c) = {}
            /\ \A a \in Agents :
                  (hAgent[c] = a /\ tid[c] \in agentTunnels[a]) =>
                      \E d \in Conns \ {c} :
                          pc[d] \notin {"idle", "done"} /\ tid[d] = tid[c]

\* A handler ended after its tunnel was established and had carried Data.
C12_Witness ==
    \E c \in Conns : pc[c] = "done" /\ acked[c] = "taken" /\ emitted[c] # <<>>

\* ------------------------------------------------------- the rule table
\* net.Listen fails when the port is bound, by another process or by a
\* listener of this one.
PortBusy(p) == p \in portHeld \/ \E r \in Rules : listenerOpen[r] /\ ListenPort(r) = p

\* forward.go 91-159: StartRule(rule) for a "remote" tcp rule; what it returns
\* is kept in lastCall.
StartRule(r) ==
    /\ IF inRules[r]
       THEN /\ lastCall' = [lastCall EXCEPT ![r] = "exists"]
            /\ UNCHANGED <<active, inRules, listenerOpen, trafficUsed>>
       ELSE IF PortBusy(ListenPort(r))
       THEN /\ lastCall' = [lastCall EXCEPT ![r] = "listen"]
            /\ UNCHANGED <<active, inRules, listenerOpen, trafficUsed>>
       ELSE /\ active' = [active EXCEPT ![r] = TRUE]
            /\ trafficUsed' = [trafficUsed EXCEPT ![r] = storedTraffic[r]]
            /\ listenerOpen' = [listenerOpen EXCEPT ![r] = TRUE]
            /\ inRules' = [inRules EXCEPT ![r] = TRUE]
            /\ lastCall' = [lastCall EXCEPT ![r] = "nil"]
    /\ UNCHANGED <<storedTraffic, tunnelIDGen, tunnelConns, pendingAcks, ackChan,
                   sessVars, taskVars, sockVars, agentVars, histVars, enabled,
                   portHeld, exceptRule>>

\* StartRule called through the API.
StartRuleCall(r) ==
    /\ StartRule(r)
    /\ UNCHANGED <<runPc, runTodo, runStarted>>

\* forward.go 75-81: Run loads the rules of the store.
RunLoad ==
    /\ runPc = "boot"
    /\ runPc' = "loop"
    /\ runTodo' = Rules
    /\ UNCHANGED <<fwdVars, sessVars, taskVars, sockVars, agentVars, histVars,
                   enabled, portHeld, runStarted, lastCall, exceptRule>>

\* forward.go 83-87: one turn of the loop of Run.
RunVisit(r) ==
    /\ runPc = "loop" /\ r \in runTodo
    /\ runTodo' = runTodo \ {r}
    /\ runPc' = IF runTodo = {r} THEN "done" ELSE "loop"
    /\ IF enabled[r]
       THEN /\ StartRule(r)
            /\ runStarted' = runStarted \cup {r}
       ELSE UNCHANGED <<fwdVars, sessVars, taskVars, sockVars, agentVars, histVars,
                        enabled, portHeld, runStarted, lastCall, exceptRule>>

\* Another process of the host binds or releases a listen port.
PortTaken(p) ==
    /\ ~PortBusy(p)
    /\ portHeld' = portHeld \cup {p}
    /\ UNCHANGED <<fwdVars, sessVars, taskVars, sockVars, agentVars, histVars,
                   enabled, runPc, runTodo, runStarted, lastCall, exceptRule>>

PortFreed(p) ==
    /\ p \in portHeld
    /\ portHeld' = portHeld \ {p}
    /\ UNCHANGED <<fwdVars, sessVars, taskVars, sockVars, agentVars, histVars,
                   enabled, runPc, runTodo, runStarted, lastCall, exceptRule>>

\* A fresh Forwarder (NewForwarder) over a store whose rules are enabled or not.
InitBoot ==
    /\ InitRest
    /\ enabled \in [Rules -> BOOLEAN]
    /\ active = [r \in Rules |-> FALSE]
    /\ inRules = [r \in Rules |-> FALSE]
    /\ listenerOpen = [r \in Rules |-> FALSE]
    /\ runPc = "boot"
    /\ runTodo = {}
    /\ lastCall = [r \in Rules |-> "none"]

\* Run at start-up, then StartRule and StopRule called through the API, on a
\* host whose ports other processes take and release.
NextRules ==
    \/ RunLoad
    \/ \E r \in Rules : RunVisit(r)
    \/ \E r \in Rules : StartRuleCall(r)
    \/ \E r \in Rules : StopRule(r)
    \/ \E r \in Rules : PortTaken(ListenPort(r)) \/ PortFreed(ListenPort(r))

SpecRules == InitBoot /\ [][NextRules]_vars

\* The rule was started (StartRule returned nil, or found it running) and has
\* not been stopped since.
Started(r) == lastCall[r] \in {"nil", "exists"}

RuleTableExact ==
    /\ \A r \in Rules : inRules[r] <=> Started(r)
    /\ \A r \in Rules : inRules[r] => (active[r] /\ listenerOpen[r])
    /\ runPc = "done" => runStarted = {r \in Rules : enabled[r]}

StartOfRunningRuleRefused ==
    \A r \in Rules :
        (inRules[r] /\ lastCall'[r] # lastCall[r] /\ lastCall'[r] # "stopped")
           => /\ lastCall'[r] = "exists"
              /\ inRules'[r] /\ active'[r] = active[r]
              /\ listenerOpen'[r] = listenerOpen[r]
              /\ trafficUsed'[r] = trafficUsed[r]

C14_BindFailureVisible ==
    \A r \in Rules : lastCall[r] = "listen" => (inRules[r] /\ ~active[r])

\* ---------------------------------------------- cloud->direct rules
\* forward.go 366-377: the listener of rule dt accepts the client.
DirectAccept ==
    /\ dpc = "idle"
    /\ dpc' = "precheck"
    /\ UNCHANGED <<tunnelVars, exceptDirect, eofVars, dUsed, dWaited, dFwd, cpc, cbuf, dAvail,
                   dWrites, dClosed, uQueued, uSent, uTarget, uAtTarget, uReplies>>

\* forward.go 383-387: the traffic-limit pre-check.
DirectPreCheck ==
    /\ dpc = "precheck"
    /\ IF DirectLimit("dt") > 0 /\ dUsed["dt"] >= DirectLimit("dt")
       THEN dpc' = "done" /\ dClosed' = TRUE
       ELSE dpc' = "dial" /\ UNCHANGED dClosed
    /\ UNCHANGED <<tunnelVars, exceptDirect, eofVars, dUsed, dWaited, dFwd, cpc, cbuf, dAvail,
                   dWrites, uQueued, uSent, uTarget, uAtTarget, uReplies>>

\* forward.go 392-413: dial the target; on success start the two copy tasks.
DirectDial ==
    /\ dpc = "dial"
    /\ \E dialed \in BOOLEAN :
          IF dialed
          THEN /\ dpc' = "copy"
               /\ cpc' = [d \in Dirs |-> "read"]
               /\ UNCHANGED dClosed
          ELSE /\ dpc' = "done" /\ dClosed' = TRUE
               /\ UNCHANGED cpc
    /\ UNCHANGED <<tunnelVars, exceptDirect, eofVars, dUsed, dWaited, dFwd, cbuf, dAvail,
                   dWrites, uQueued, uSent, uTarget, uAtTarget, uReplies>>

\* forward.go 416 and the deferred Close of both sockets: the handler returns
\* when one direction has ended.
DirectDone ==
    /\ dpc = "copy"
    /\ \E d \in Dirs : cpc[d] = "end"
    /\ dpc' = "done"
    /\ dClosed' = TRUE
    /\ UNCHANGED <<tunnelVars, exceptDirect, eofVars, dUsed, dWaited, dFwd, cpc, cbuf, dAvail,
                   dWrites, uQueued, uSent, uTarget, uAtTarget, uReplies>>

\* forward.go 424-427: src.Read(buf); an error ends copyWithLimits.
CopyRead(d) ==
    /\ cpc[d] = "read"
    /\ \/ /\ dClosed \/ (dEOF[d] /\ dAvail[d] = 0)
          /\ cpc' = [cpc EXCEPT ![d] = "end"]
          /\ UNCHANGED <<cbuf, dAvail>>
       \/ /\ ~dClosed /\ dAvail[d] > 0
          /\ cbuf' = [cbuf EXCEPT ![d] = Min(dAvail[d], BufSize)]
          /\ dAvail' = [dAvail EXCEPT ![d] = @ - Min(dAvail[d], BufSize)]
          /\ cpc' = [cpc EXCEPT ![d] = "add"]
    /\ UNCHANGED <<tunnelVars, exceptDirect, eofVars, dUsed, dWaited, dFwd, dpc, dWrites,
                   dClosed, uQueued, uSent, uTarget, uAtTarget, uReplies>>

\* forward.go 430-433 with addTraffic (191-200).
CopyAddTraffic(d) ==
    /\ cpc[d] = "add"
    /\ dUsed' = [dUsed EXCEPT !["dt"] = @ + cbuf[d]]
    /\ cpc' = [cpc EXCEPT ![d] =
                  IF DirectLimit("dt") > 0 /\ dUsed["dt"] + cbuf[d] > DirectLimit("dt")
                  THEN "end" ELSE "wait"]
    /\ UNCHANGED <<tunnelVars, exceptDirect, eofVars, dWaited, dFwd, dpc, cbuf, dAvail, dWrites,
                   dClosed, uQueued, uSent, uTarget, uAtTarget, uReplies>>

\* forward.go 436-438: state.RateLimiter.Wait(n).
CopyWait(d) ==
    /\ cpc[d] = "wait"
    /\ dWaited' = [dWaited EXCEPT !["dt"] = @ + cbuf[d]]
    /\ cpc' = [cpc EXCEPT ![d] = "write"]
    /\ UNCHANGED <<tunnelVars, exceptDirect, eofVars, dUsed, dFwd, dpc, cbuf, dAvail, dWrites,
                   dClosed, uQueued, uSent, uTarget, uAtTarget, uReplies>>

\* forward.go 440-443: dst.Write(buf[:n]); an error ends copyWithLimits.
CopyWrite(d) ==
    /\ cpc[d] = "write"
    /\ IF dClosed
       THEN /\ cpc' = [cpc EXCEPT ![d] = "end"]
            /\ UNCHANGED dFwd
       ELSE /\ cpc' = [cpc EXCEPT ![d] = "read"]
            /\ dFwd' = [dFwd EXCEPT !["dt"] = @ + cbuf[d]]
    /\ dGot' = [dGot EXCEPT ![d] = IF dClosed THEN @ ELSE @ + cbuf[d]]
    /\ UNCHANGED <<tunnelVars, exceptDirect, dEOF, dPut, dUsed, dWaited, dpc, cbuf, dAvail, dWrites,
                   dClosed, uQueued, uSent, uTarget, uAtTarget, uReplies>>

\* The client (direction c2t) or the target (t2c) writes n bytes.
DirectWrite(d, n) ==
    /\ dpc = "copy" /\ ~dClosed /\ ~dEOF[d]
    /\ dWrites[d] < MaxDirectWrites
    /\ dWrites' = [dWrites EXCEPT ![d] = @ + 1]
    /\ dAvail' = [dAvail EXCEPT ![d] = @ + n]
    /\ dPut' = [dPut EXCEPT ![d] = @ + n]
    /\ UNCHANGED <<tunnelVars, exceptDirect, dEOF, dGot, dUsed, dWaited, dFwd, dpc, cpc, cbuf,
                   dClosed, uQueued, uSent, uTarget, uAtTarget, uReplies>>

\* The client (direction c2t) or the target (t2c) shuts down its sending side:
\* the reads of that direction return EOF once its bytes are read, the other
\* direction of the connection stays open.
DirectHalfClose(d) ==
    /\ dpc = "copy" /\ ~dClosed /\ ~dEOF[d]
    /\ dEOF' = [dEOF EXCEPT ![d] = TRUE]
    /\ UNCHANGED <<tunnelVars, exceptDirect, dPut, dGot, dUsed, dWaited, dFwd, dpc, cpc,
                   cbuf, dAvail, dWrites, dClosed, uQueued, uSent, uTarget, uAtTarget,
                   uReplies>>

\* The udp client sends a datagram of one byte to the socket of rule du.
UDPClientSend ==
    /\ uSent < MaxDgrams
    /\ uSent' = uSent + 1
    /\ uQueued' = uQueued + 1
    /\ UNCHANGED <<tunnelVars, exceptDirect, eofVars, dUsed, dWaited, dFwd, dpc, cpc, cbuf, dAvail,
                   dWrites, dClosed, uTarget, uAtTarget, uReplies>>

\* forward.go 458-509: one turn of the loop of handleCloudSelfUDPListener:
\* ReadFromUDP, look the client up in clients, dial the target and start the
\* reply task if the client is new, then targetConn.Write(buf[:n]).  A failed
\* dial drops the datagram.
CloudSelfUDPTurn ==
    /\ uQueued > 0
    /\ uQueued' = uQueued - 1
    /\ \E dialed \in BOOLEAN :
          IF uTarget \/ dialed
          THEN /\ uTarget' = TRUE
               /\ uAtTarget' = uAtTarget + 1
               /\ dFwd' = [dFwd EXCEPT !["du"] = @ + 1]
          ELSE UNCHANGED <<uTarget, uAtTarget, dFwd>>
    /\ UNCHANGED <<tunnelVars, exceptDirect, eofVars, dUsed, dWaited, dpc, cpc, cbuf, dAvail,
                   dWrites, dClosed, uSent, uReplies>>

\* The target answers a datagram with a datagram of one byte.
UDPTargetReply ==
    /\ uAtTarget > 0
    /\ uAtTarget' = uAtTarget - 1
    /\ uReplies' = IF uTarget THEN uReplies + 1 ELSE uReplies
    /\ UNCHANGED <<tunnelVars, exceptDirect, eofVars, dUsed, dWaited, dFwd, dpc, cpc, cbuf, dAvail,
                   dWrites, dClosed, uQueued, uSent, uTarget>>

\* forward.go 486-498: the reply task: targetConn.Read, then
\* state.UDPConn.WriteToUDP(respBuf[:n], clientAddr); after 30 seconds without
\* a reply it forgets the client and closes targetConn.
CloudSelfUDPReply ==
    /\ uTarget
    /\ IF uReplies > 0
       THEN /\ uReplies' = uReplies - 1
            /\ dFwd' = [dFwd EXCEPT !["du"] = @ + 1]
            /\ UNCHANGED uTarget
       ELSE /\ uTarget' = FALSE
            /\ UNCHANGED <<uReplies, dFwd>>
    /\ UNCHANGED <<tunnelVars, exceptDirect, eofVars, dUsed, dWaited, dpc, cpc, cbuf, dAvail,
                   dWrites, dClosed, uQueued, uSent, uAtTarget>>

\* One tcp client of rule dt and one udp client of rule du.
NextDirect ==
    \/ DirectAccept \/ DirectPreCheck \/ DirectDial \/ DirectDone
    \/ \E d \in Dirs : CopyRead(d) \/ CopyAddTraffic(d) \/ CopyWait(d) \/ CopyWrite(d)
    \/ \E d \in Dirs, n \in {1, BufSize} : DirectWrite(d, n)
    \/ \E d \in Dirs : DirectHalfClose(d)
    \/ UDPClientSend \/ CloudSelfUDPTurn \/ UDPTargetReply \/ CloudSelfUDPReply

SpecDirect == Init /\ [][NextDirect]_vars

\* C15: for each cloud->direct rule, tcp or udp, the bytes forwarded (both
\* directions) have all gone through the rate limiter and have all been added
\* to traffic-used before, and what is forwarded never exceeds a non-zero
\* traffic-limit.
C15_DirectAccounted ==
    \A r \in DirectRules :
        /\ dFwd[r] <= dWaited[r]
        /\ dWaited[r] <= dUsed[r]
        /\ DirectLimit(r) > 0 => dFwd[r] <= DirectLimit(r)

\* ------------------------------------------- cloud->agent udp rules
\* Client k sends a datagram to the listen port of rule u.
UDPSend(k, u) ==
    /\ uCount < MaxRemoteDgrams
    /\ [client |-> k, rule |-> u] \notin uSock
    /\ uCount' = uCount + 1
    /\ uSock' = uSock \cup {[client |-> k, rule |-> u]}
    /\ UNCHANGED <<tunnelVars, exceptUDP, uOut, uBack, uDelivered>>

\* forward.go 337-362: one turn of the loop of handleRemoteUDPListener of rule
\* u: ReadFromUDP, GetAgent, then UDPData{source = the client's address} to the
\* Agent.  The frame does not name the rule; "via" records it.
RemoteUDPTurn(u) ==
    \E g \in {x \in uSock : x.rule = u} :
        /\ uSock' = uSock \ {g}
        /\ uOut' = IF connected[TargetAgentID(u)]
                   THEN uOut \cup {[agent |-> TargetAgentID(u), src |-> g.client, via |-> u]}
                   ELSE uOut
        /\ UNCHANGED <<tunnelVars, exceptUDP, uBack, uDelivered, uCount>>

\* The Agent sends the datagram to the target and returns the target's answer
\* as UDPData whose destination is the address the datagram came from.
AgentUDPEcho ==
    \E f \in uOut :
        /\ uOut' = uOut \ {f}
        /\ uBack' = uBack \cup {[agent |-> f.agent, dest |-> f.src, via |-> f.via]}
        /\ UNCHANGED <<tunnelVars, exceptUDP, uSock, uDelivered, uCount>>

\* The rules HandleUDPData may stop at: the range over f.rules visits the rules
\* in an unspecified order and stops at the first rule with this target Agent
\* and a udp socket.
UDPRuleOf(a) == {u \in UDPRules : TargetAgentID(u) = a}

\* forward.go 533-549: HandleUDPData(agent, msg).
HandleUDPData ==
    \E f \in uBack :
        /\ uBack' = uBack \ {f}
        /\ IF UDPRuleOf(f.agent) = {}
           THEN UNCHANGED uDelivered
           ELSE \E u \in UDPRuleOf(f.agent) :
                   uDelivered' = uDelivered \cup
                       {[client |-> f.dest, socket |-> u, via |-> f.via]}
        /\ UNCHANGED <<tunnelVars, exceptUDP, uSock, uOut, uCount>>

NextUDP ==
    \/ \E k \in UDPClients, u \in UDPRules : UDPSend(k, u)
    \/ \E u \in UDPRules : RemoteUDPTurn(u)
    \/ AgentUDPEcho
    \/ HandleUDPData

SpecUDP == Init /\ [][NextUDP]_vars

\* C16: every reply is sent to the client from the socket of the rule through
\* which the client's datagram had arrived.
C16_ReplyFromSameRule ==
    \A d \in uDelivered : d.socket = d.via

\* ------------------------------------------- the Agent's local listener
\* part_004 91-111: acceptTCP accepts a connection and starts
\* handleTCPConn, which takes a tunnel id (line 116).
LocalAccept(l) ==
    /\ lpc[l] = "idle"
    /\ lpc' = [lpc EXCEPT ![l] = "dial"]
    /\ lGen' = lGen + 1
    /\ UNCHANGED <<tunnelVars, exceptLocal, lDialled, lFrames, lPendUp, lAtTarget,
                   lPendDown, lAtClient, lWrites>>

\* part_004 122-129: net.Dial of targetHost:targetPort from the Agent; no
\* frame is sent on the control channel.  A failed dial ends the handler.
LocalDial(l) ==
    /\ lpc[l] = "dial"
    /\ \E ok \in BOOLEAN :
          /\ lpc' = [lpc EXCEPT ![l] = IF ok THEN "copy" ELSE "done"]
          /\ lDialled' = [lDialled EXCEPT ![l] = ok]
    /\ UNCHANGED <<tunnelVars, exceptLocal, lGen, lFrames, lPendUp, lAtTarget,
                   lPendDown, lAtClient, lWrites>>

\* The user of the local listener writes a byte.
LocalClientWrite(l) ==
    /\ lpc[l] \in {"dial", "copy"}
    /\ lWrites < MaxLocalWrites
    /\ lWrites' = lWrites + 1
    /\ lPendUp' = [lPendUp EXCEPT ![l] = @ + 1]
    /\ UNCHANGED <<tunnelVars, exceptLocal, lpc, lGen, lDialled, lFrames, lAtTarget,
                   lPendDown, lAtClient>>

\* The target writes a byte on the connection the Agent dialled.
LocalTargetWrite(l) ==
    /\ lpc[l] = "copy"
    /\ lWrites < MaxLocalWrites
    /\ lWrites' = lWrites + 1
    /\ lPendDown' = [lPendDown EXCEPT ![l] = @ + 1]
    /\ UNCHANGED <<tunnelVars, exceptLocal, lpc, lGen, lDialled, lFrames, lPendUp,
                   lAtTarget, lAtClient>>

\* part_004 136-148: conn.Read then target.Write.
LocalCopyUp(l) ==
    /\ lpc[l] = "copy"
    /\ lPendUp[l] > 0
    /\ lAtTarget' = [lAtTarget EXCEPT ![l] = @ + lPendUp[l]]
    /\ lPendUp' = [lPendUp EXCEPT ![l] = 0]
    /\ UNCHANGED <<tunnelVars, exceptLocal, lpc, lGen, lDialled, lFrames, lPendDown,
                   lAtClient, lWrites>>

\* part_004 150-162: target.Read then conn.Write.
LocalCopyDown(l) ==
    /\ lpc[l] = "copy"
    /\ lPendDown[l] > 0
    /\ lAtClient' = [lAtClient EXCEPT ![l] = @ + lPendDown[l]]
    /\ lPendDown' = [lPendDown EXCEPT ![l] = 0]
    /\ UNCHANGED <<tunnelVars, exceptLocal, lpc, lGen, lDialled, lFrames, lPendUp,
                   lAtTarget, lWrites>>

\* part_004 139-142, 153-156, 164-166: a Read fails (the peer closed), the
\* copier signals done and handleTCPConn returns, closing both sockets.
LocalDone(l) ==
    /\ lpc[l] = "copy"
    /\ lpc' = [lpc EXCEPT ![l] = "done"]
    /\ UNCHANGED <<tunnelVars, exceptLocal, lGen, lDialled, lFrames, lPendUp,
                   lAtTarget, lPendDown, lAtClient, lWrites>>

NextLocal ==
    \E l \in LocalConns :
        \/ LocalAccept(l)
        \/ LocalDial(l)
        \/ LocalClientWrite(l)
        \/ LocalTargetWrite(l)
        \/ LocalCopyUp(l)
        \/ LocalCopyDown(l)
        \/ LocalDone(l)

SpecLocal == Init /\ [][NextLocal]_vars

\* C17: a connection accepted by the Agent's local listener is served by a
\* tunnel through Cloud: the Agent has sent a Connect on the control channel
\* before any byte reaches the target, and it has not dialled the target from
\* its own network.
C17_LocalThroughCloud ==
    \A l \in LocalConns :
        /\ ~lDialled[l]
        /\ lAtTarget[l] > 0 => (lFrames[l] # <<>> /\ Head(lFrames[l]) = "Connect")

\* ------------------------------------------- the rate limiter, with time
\* The clock counts ticks of 1/RateLimit second, the time in which one token
\* accrues, so that every sleep of Wait is a whole number of ticks.
TicksPerSecond == RateLimit

\* The bucket after a refill at the instant rNow: tokens accrue at RateLimit
\* per second and are capped at the capacity.
Refilled ==
    LET t == rTokens + ((rNow - rLast) * RateLimit) \div TicksPerSecond
    IN  IF t > RateLimit THEN RateLimit ELSE t

\* The ticks it takes to accrue a deficit of d tokens.
SleepFor(d) == (d * TicksPerSecond + RateLimit - 1) \div RateLimit

\* forward.go 306-327: the pump loop of connection c reads n bytes and calls
\* RateLimiter.Wait(n).  With enough tokens Wait returns at once and the loop
\* emits the Data frame; otherwise the loop sleeps for the deficit.
RatePumpRead(c, n) ==
    /\ pumpPc[c] = "read"
    /\ rReads < MaxRateReads
    /\ rReads' = rReads + 1
    /\ rTokens' = Refilled - n
    /\ rLast' = rNow
    /\ IF n <= Refilled
       THEN /\ sentUp' = [sentUp EXCEPT ![rNow] = @ + n]
            /\ UNCHANGED <<pumpPc, rn, rWake>>
       ELSE /\ pumpPc' = [pumpPc EXCEPT ![c] = "wait"]
            /\ rn' = [rn EXCEPT ![c] = n]
            /\ rWake' = [rWake EXCEPT ![c] = rNow + SleepFor(n - Refilled)]
            /\ UNCHANGED sentUp
    /\ UNCHANGED <<tunnelVars, exceptRate, rNow, sentDown, rFrames>>

\* forward.go 321-327: Wait returns after the sleep and the loop emits the
\* Data frame.
RatePumpWake(c) ==
    /\ pumpPc[c] = "wait"
    /\ rWake[c] <= rNow
    /\ sentUp' = [sentUp EXCEPT ![rNow] = @ + rn[c]]
    /\ pumpPc' = [pumpPc EXCEPT ![c] = "read"]
    /\ rn' = [rn EXCEPT ![c] = 0]
    /\ UNCHANGED <<tunnelVars, exceptRate, rNow, rTokens, rLast, rWake, sentDown,
                   rReads, rFrames>>

\* forward.go 517-530: HandleData for a Data frame of n bytes from the Agent
\* on the tunnel of connection c: the payload is written to the client socket.
RateHandleData(c, n) ==
    /\ rFrames < MaxRateFrames
    /\ rFrames' = rFrames + 1
    /\ sentDown' = [sentDown EXCEPT ![rNow] = @ + n]
    /\ UNCHANGED <<tunnelVars, exceptRate, rNow, rTokens, rLast, pumpPc, rn, rWake,
                   sentUp, rReads>>

\* A tick passes; a sleep that has ended is over before the next tick.
Tick ==
    /\ rNow < MaxTime
    /\ \A c \in RateConns : pumpPc[c] = "wait" => rWake[c] > rNow
    /\ rNow' = rNow + 1
    /\ UNCHANGED <<tunnelVars, exceptRate, rTokens, rLast, pumpPc, rn, rWake, sentUp,
                   sentDown, rReads, rFrames>>

NextRate ==
    \/ \E c \in RateConns, n \in ChunkSizes : RatePumpRead(c, n)
    \/ \E c \in RateConns : RatePumpWake(c)
    \/ \E c \in RateConns, n \in ChunkSizes : RateHandleData(c, n)
    \/ Tick

SpecRate == Init /\ [][NextRate]_vars

\* The bytes the rule forwarded, in both directions, at the ticks a..b.
RECURSIVE BytesIn(_, _)
BytesIn(a, b) ==
    IF a > b THEN 0 ELSE sentUp[a] + sentDown[a] + BytesIn(a + 1, b)

\* C18: in every window of W >= 2 seconds the bytes the rule forwarded, over
\* all its connections and both directions, are at most
\* RateLimit * W + capacity, with capacity = RateLimit.
C18_RateBound ==
    \A s \in 0..MaxTime, W \in 2..(MaxTime \div TicksPerSecond) :
        s + W * TicksPerSecond <= MaxTime =>
            BytesIn(s, s + W * TicksPerSecond) <= RateLimit * W + RateLimit

\* ------------------------------------------- the reader and slow clients
\* The Agent sends a Data frame for tunnel t of the session.
StallAgentData(t) ==
    /\ sFrames < MaxStallFrames
    /\ sFrames' = sFrames + 1
    /\ sQueue' = Append(sQueue, t)
    /\ UNCHANGED <<tunnelVars, exceptStall, sReader, sRoom, sStalled, sWritten>>

\* forward.go 517-529: the session's reader takes the next Data frame and
\* calls HandleData, whose tunnelConn.Conn.Write has no deadline: it returns
\* when the socket has taken the payload and blocks while the socket has no
\* room.
StallHandleData ==
    /\ sReader = "idle"
    /\ sQueue # <<>>
    /\ LET t == Head(sQueue)
       IN /\ sQueue' = Tail(sQueue)
          /\ IF sRoom[t] > 0
             THEN /\ sRoom' = [sRoom EXCEPT ![t] = @ - 1]
                  /\ sWritten' = [sWritten EXCEPT ![t] = @ + 1]
                  /\ UNCHANGED sReader
             ELSE /\ sReader' = t
                  /\ UNCHANGED <<sRoom, sWritten>>
    /\ UNCHANGED <<tunnelVars, exceptStall, sStalled, sFrames>>

\* forward.go 526: the blocked Write returns once the socket has room.
StallWriteReturns ==
    /\ sReader \in StallTunnels
    /\ sRoom[sReader] > 0
    /\ sRoom' = [sRoom EXCEPT ![sReader] = @ - 1]
    /\ sWritten' = [sWritten EXCEPT ![sReader] = @ + 1]
    /\ sReader' = "idle"
    /\ UNCHANGED <<tunnelVars, exceptStall, sQueue, sStalled, sFrames>>

\* The client of tunnel t reads what its socket holds.
ClientDrain(t) ==
    /\ t \notin sStalled
    /\ sRoom[t] < MaxBuffered
    /\ sRoom' = [sRoom EXCEPT ![t] = MaxBuffered]
    /\ UNCHANGED <<tunnelVars, exceptStall, sQueue, sReader, sStalled, sWritten, sFrames>>

\* The client of tunnel t stops reading and keeps its socket open.
ClientStalls(t) ==
    /\ t \notin sStalled
    /\ sStalled' = sStalled \cup {t}
    /\ UNCHANGED <<tunnelVars, exceptStall, sQueue, sReader, sRoom, sWritten, sFrames>>

StallReader == StallHandleData \/ StallWriteReturns

NextStall ==
    \/ \E t \in StallTunnels : StallAgentData(t)
    \/ StallReader
    \/ \E t \in StallTunnels : ClientDrain(t)
    \/ \E t \in StallTunnels : ClientStalls(t)

SpecStall == Init /\ [][NextStall]_vars

\* The reader is scheduled fairly and a client that has not stopped reading
\* goes on reading; the Agent and a stalled client owe nothing.
FairStall ==
    /\ SpecStall
    /\ WF_vars(StallReader)
    /\ \A t \in StallTunnels : WF_vars(ClientDrain(t))

\* The frames of tunnel t that the reader has not yet taken.
Unread(t) == \E i \in 1..Len(sQueue) : sQueue[i] = t

\* C19: the reader is never blocked by user-socket I/O: a Data frame queued
\* for a tunnel whose client goes on reading is taken by the reader in the
\* end, whatever the clients of the session's other tunnels do.
C19_ReaderNeverBlocked ==
    \A t \in StallTunnels :
        (Unread(t) /\ t \notin sStalled) ~> (~Unread(t) \/ t \in sStalled)

\* ------------------------------------------- a Connect that is not acked
\* The handlers whose wait ended with the deadline or with success=false.
AckFailed(c) == ackOutcome[c] \in {"refused", "timeout"}

\* After the failed wait the handler only leaves: it holds no entry of the
\* tunnel table, and once it has ended its socket is closed and its
\* pending-ack entry is gone.
FailedAckDropped ==
    \A c \in Conns : AckFailed(c) =>
        /\ pc[c] \in {"cleanup_pending", "closeconn", "done"}
        /\ EntryOf(tunnelConns, c) = {}
        /\ pc[c] = "done" => (connClosed[c] /\ EntryOf(pendingAcks, c) = {})

\* The step in which a wait fails, and every later step of that handler,
\* leaves the tunnel table, the session tunnel sets and the sessions'
\* active-tunnel counters as they are.
FailedAckRegistersNothing ==
    \A c \in Conns :
        (AckFailed(c)' /\ pc'[c] # pc[c]) =>
            UNCHANGED <<tunnelConns, agentTunnels, activeTunnels>>

\* C20: when no ConnectAck arrives before the deadline, or the ConnectAck has
\* success=false, the client socket is closed, the pending-ack entry is
\* dropped, the tunnel-id is never put in the tunnel table or in the session
\* tunnel set, and the session's active-tunnel counter is not changed.
C20_FailedAckCleansUp == []FailedAckDropped /\ [][FailedAckRegistersNothing]_vars

C20_Witness ==
    \E c, d \in Conns :
        /\ pc[c] = "done" /\ ackOutcome[c] = "timeout"
        /\ pc[d] = "done" /\ ackOutcome[d] = "refused"

\* ------------------------------------------- StartRule over every rule type
\* net.Listen and net.ListenUDP fail when the port is bound for the protocol,
\* by another process or by a RuleState of this one.
KindPortBusy(proto) ==
    \/ proto \in kHeld
    \/ proto = "tcp" /\ kListener # {}
    \/ proto = "udp" /\ kUDPConn # {}

\* The rule types for which StartRule binds on Cloud.
Binds(r) == RuleType(r) \in {"remote", "cloud-self"}

\* StartRule binding the listen port for the rules of every type.
StartRuleBindsAlways(r) ==
    /\ IF r \in kRules
       THEN /\ kCall' = [op |-> "start", rule |-> r, ret |-> "exists"]
            /\ UNCHANGED <<kRules, kListener, kUDPConn>>
       ELSE IF KindPortBusy(Protocol(r))
       THEN /\ kCall' = [op |-> "start", rule |-> r, ret |-> "listen"]
            /\ UNCHANGED <<kRules, kListener, kUDPConn>>
       ELSE /\ kListener' = IF Protocol(r) = "tcp" THEN kListener \cup {r} ELSE kListener
            /\ kUDPConn' = IF Protocol(r) = "udp" THEN kUDPConn \cup {r} ELSE kUDPConn
            /\ kRules' = kRules \cup {r}
            /\ kCall' = [op |-> "start", rule |-> r, ret |-> "nil"]
    /\ UNCHANGED <<tunnelVars, exceptKinds, kHeld>>

\* forward.go 91-159: StartRule(rule), with the switch over rule.Type and
\* rule.Protocol.
StartRuleOfType(r) ==
    /\ IF r \in kRules
       THEN /\ kCall' = [op |-> "start", rule |-> r, ret |-> "exists"]
            /\ UNCHANGED <<kRules, kListener, kUDPConn>>
       ELSE IF Binds(r) /\ KindPortBusy(Protocol(r))
       THEN /\ kCall' = [op |-> "start", rule |-> r, ret |-> "listen"]
            /\ UNCHANGED <<kRules, kListener, kUDPConn>>
       ELSE /\ kListener' = IF Binds(r) /\ Protocol(r) = "tcp"
                            THEN kListener \cup {r} ELSE kListener
            /\ kUDPConn' = IF Binds(r) /\ Protocol(r) = "udp"
                           THEN kUDPConn \cup {r} ELSE kUDPConn
            /\ kRules' = kRules \cup {r}
            /\ kCall' = [op |-> "start", rule |-> r, ret |-> "nil"]
    /\ UNCHANGED <<tunnelVars, exceptKinds, kHeld>>

\* forward.go 162-187: StopRule(ruleID); no byte was forwarded on these rules,
\* so the traffic-used it saves is the stored one.
StopRuleOfType(r) ==
    /\ kCall' = [op |-> "stop", rule |-> r, ret |-> "nil"]
    /\ kRules' = kRules \ {r}
    /\ kListener' = kListener \ {r}
    /\ kUDPConn' = kUDPConn \ {r}
    /\ UNCHANGED <<tunnelVars, exceptKinds, kHeld>>

\* Another process binds or releases the listen port for a protocol.
KindPortTaken(proto) ==
    /\ ~KindPortBusy(proto)
    /\ kHeld' = kHeld \cup {proto}
    /\ UNCHANGED <<tunnelVars, exceptKinds, kRules, kListener, kUDPConn, kCall>>

KindPortFreed(proto) ==
    /\ proto \in kHeld
    /\ kHeld' = kHeld \ {proto}
    /\ UNCHANGED <<tunnelVars, exceptKinds, kRules, kListener, kUDPConn, kCall>>

NextKinds ==
    \/ \E r \in KindRules : StartRuleOfType(r)
    \/ \E r \in KindRules : StopRuleOfType(r)
    \/ \E proto \in Protocols : KindPortTaken(proto) \/ KindPortFreed(proto)

SpecKinds == Init /\ [][NextKinds]_vars

\* A RuleState of an agent->cloud or agent->agent rule has no listener and no
\* datagram socket.
AgentSideRuleHoldsNothing ==
    \A r \in kRules : ~Binds(r) => (r \notin kListener /\ r \notin kUDPConn)

\* StartRule of such a rule that is not running returns nil, registers the
\* rule and binds nothing, whatever the state of the listen port.
AgentSideStartSucceeds ==
    \A r \in KindRules :
        (/\ ~Binds(r) /\ r \notin kRules
         /\ kCall' # kCall /\ kCall'.op = "start" /\ kCall'.rule = r)
        => /\ kCall'.ret = "nil"
           /\ r \in kRules'
           /\ kListener' = kListener /\ kUDPConn' = kUDPConn

\* C21: StartRule for an agent->cloud or agent->agent rule ("local", "p2p")
\* binds no listener and no udp socket on Cloud: it succeeds whatever the
\* state of the listen port and leaves a RuleState with neither.
C21_AgentSideRuleBindsNothing ==
    []AgentSideRuleHoldsNothing /\ [][AgentSideStartSucceeds]_vars

C21_Witness ==
    /\ kCall = [op |-> "start", rule |-> <<"local", "tcp">>, ret |-> "nil"]
    /\ "tcp" \in kHeld
    /\ <<"p2p", "udp">> \in kRules /\ kUDPConn # {}

\* ------------------------------------------- RetryWithBackoff
\* part_003 91-93: RetryWithBackoff(fn, maxRetries, initialDelay) is called.
RetryBegin(d, m) ==
    /\ bPc = "idle"
    /\ bPc' = "loop"
    /\ bD' = d
    /\ bMax' = m
    /\ bDelay' = d
    /\ bI' = 0
    /\ bLastErr' = 0
    /\ UNCHANGED <<tunnelVars, exceptRetry, bRet, bWaits, bResults>>

\* part_003 94-105: one turn of the loop: fn succeeds (return nil) or fails
\* (sleep, double, cap).
RetryAttempt(ok) ==
    /\ bPc = "loop"
    /\ bI < bMax
    /\ bResults' = Append(bResults, ok)
    /\ IF ok
       THEN /\ bRet' = 0
            /\ bPc' = "done"
            /\ UNCHANGED <<bLastErr, bWaits, bDelay, bI>>
       ELSE /\ bLastErr' = Len(bResults) + 1
            /\ bWaits' = Append(bWaits, bDelay)
            /\ bDelay' = IF bDelay * 2 > DelayCap THEN DelayCap ELSE bDelay * 2
            /\ bI' = bI + 1
            /\ UNCHANGED <<bRet, bPc>>
    /\ UNCHANGED <<tunnelVars, exceptRetry, bD, bMax>>

\* part_003 94, 106: the loop ends and lastErr is returned.
RetryGiveUp ==
    /\ bPc = "loop"
    /\ bI >= bMax
    /\ bRet' = bLastErr
    /\ bPc' = "done"
    /\ UNCHANGED <<tunnelVars, exceptRetry, bD, bMax, bDelay, bI, bLastErr, bWaits,
                   bResults>>

NextRetry ==
    \/ \E d \in InitialDelays, m \in 0..MaxRetries : RetryBegin(d, m)
    \/ \E ok \in BOOLEAN : RetryAttempt(ok)
    \/ RetryGiveUp

SpecRetry == Init /\ [][NextRetry]_vars

RECURSIVE Pow2(_)
Pow2(n) == IF n = 0 THEN 1 ELSE 2 * Pow2(n - 1)

\* C22: the wait after the k-th failed attempt is min(d * 2^(k-1), 30 s), so
\* no wait exceeds 30 s; fn is called at most maxRetries times; the call
\* returns nil at the first success, with no further call of fn, and
\* otherwise the last error.
C22_Backoff ==
    /\ \A k \in 1..Len(bWaits) : bWaits[k] = Min(bD * Pow2(k - 1), DelayCap)
    /\ Len(bResults) <= bMax
    /\ \A k \in 1..Len(bResults) : bResults[k] => k = Len(bResults)
    /\ bPc = "done" =>
          bRet = IF bResults # <<>> /\ bResults[Len(bResults)] THEN 0 ELSE Len(bResults)

\* ------------------------------------------- the Agent after a channel loss
\* The target sockets the Agent dialled for Connects of session a that it has
\* not closed.
OpenLocal(a) == {s \in Conns : hAgent[s] = a /\ rpc[s] # "none" /\ ~localClosed[s]}

\* C23: when the Agent loses its channel all its local tunnel state is
\* discarded: its tunnel table becomes empty and every target socket is
\* closed, so no tunnel-id of the lost session is left for a later session.
C23_AgentDiscardsOnLoss ==
    \A a \in Agents :
        (~connected[a]) ~> (rpTunnels[a] = {} /\ OpenLocal(a) = {})

\* ------------------------------------------- traffic-used across stop and start
\* forward.go 91-104, 153: StartRule creates a RuleState whose TrafficUsed is
\* the rule's stored value.  It holds rulesMu, as StopRule does.
RestartRule ==
    /\ qGen = 0 /\ qStop = "idle"
    /\ qGens < MaxGens
    /\ qGens' = qGens + 1
    /\ qGen' = qGens + 1
    /\ qUsed' = [qUsed EXCEPT ![qGens + 1] = qStored]
    /\ qActive' = [qActive EXCEPT ![qGens + 1] = TRUE]
    /\ UNCHANGED <<tunnelVars, exceptPersist, qStored, qStop, qLoaded, qSaved, qPump,
                   qPc, qReads>>

\* forward.go 162-181: StopRule up to trafficUsed := atomic.LoadInt64(...).
StopRuleLoad ==
    /\ qGen # 0 /\ qStop = "idle"
    /\ qActive' = [qActive EXCEPT ![qGen] = FALSE]
    /\ qLoaded' = qUsed[qGen]
    /\ qStop' = "loaded"
    /\ UNCHANGED <<tunnelVars, exceptPersist, qStored, qGen, qGens, qUsed, qSaved,
                   qPump, qPc, qReads>>

\* forward.go 182-186, store.go 193-197: UpdateTrafficUsed(ruleID, trafficUsed),
\* then delete(f.rules, ruleID).
StopRuleSave ==
    /\ qStop = "loaded"
    /\ qStored' = qLoaded
    /\ qSaved' = [qSaved EXCEPT ![qGen] = qLoaded]
    /\ qGen' = 0
    /\ qStop' = "idle"
    /\ UNCHANGED <<tunnelVars, exceptPersist, qGens, qUsed, qActive, qLoaded, qPump,
                   qPc, qReads>>

\* forward.go 202-214: the listener of the RuleState accepts a connection; the
\* handler is at its pump loop.
PumpAccept(p) ==
    /\ qPc[p] = "idle"
    /\ qGen # 0 /\ qActive[qGen]
    /\ qPump' = [qPump EXCEPT ![p] = qGen]
    /\ qPc' = [qPc EXCEPT ![p] = "test"]
    /\ UNCHANGED <<tunnelVars, exceptPersist, qStored, qGen, qGens, qUsed, qActive,
                   qStop, qLoaded, qSaved, qReads>>

\* forward.go 306: for state.Active.
PumpLoopTest(p) ==
    /\ qPc[p] = "test"
    /\ qPc' = [qPc EXCEPT ![p] = IF qActive[qPump[p]] THEN "read" ELSE "done"]
    /\ UNCHANGED <<tunnelVars, exceptPersist, qStored, qGen, qGens, qUsed, qActive,
                   qStop, qLoaded, qSaved, qPump, qReads>>

\* forward.go 307-310: conn.Read returns a chunk (of one byte).
PumpRead(p) ==
    /\ qPc[p] = "read"
    /\ qReads < MaxPumpReads
    /\ qReads' = qReads + 1
    /\ qPc' = [qPc EXCEPT ![p] = "add"]
    /\ UNCHANGED <<tunnelVars, exceptPersist, qStored, qGen, qGens, qUsed, qActive,
                   qStop, qLoaded, qSaved, qPump>>

\* forward.go 312-327, 191-200: addTraffic on the pump's RuleState (the rule
\* has no traffic limit), then the chunk is sent.
PumpAddTraffic(p) ==
    /\ qPc[p] = "add"
    /\ qUsed' = [qUsed EXCEPT ![qPump[p]] = @ + 1]
    /\ qPc' = [qPc EXCEPT ![p] = "test"]
    /\ UNCHANGED <<tunnelVars, exceptPersist, qStored, qGen, qGens, qActive, qStop,
                   qLoaded, qSaved, qPump, qReads>>

NextPersist ==
    \/ RestartRule
    \/ StopRuleLoad
    \/ StopRuleSave
    \/ \E p \in Pumps : PumpAccept(p)
    \/ \E p \in Pumps : PumpLoopTest(p)
    \/ \E p \in Pumps : PumpRead(p)
    \/ \E p \in Pumps : PumpAddTraffic(p)

SpecPersist == Init /\ [][NextPersist]_vars

\* The rule's traffic-used: the counter of its RuleState while it has one, the
\* stored value otherwise.
RuleTrafficUsed == IF qGen # 0 THEN qUsed[qGen] ELSE qStored

\* C24: a rule's traffic-used never decreases across forwarding, StopRule and
\* StartRule: every update of a RuleState adds a non-negative amount and a
\* rule that is stopped and started again resumes from a value not lower than
\* the one reached before the stop.
C24_TrafficUsedMonotone ==
    [][/\ RuleTrafficUsed' >= RuleTrafficUsed
       /\ \A g \in 1..MaxGens : g <= qGens => qUsed'[g] >= qUsed[g]]_vars

\* C25: StopRule persists the RuleState's counter, and the persisted value
\* covers every byte accounted to that RuleState: no pump adds to the counter
\* after the persisted value was read.
C25_PersistedCoversAll ==
    \A g \in 1..MaxGens : qSaved[g] # -1 => (qSaved[g] = qUsed[g] /\ qStored >= qUsed[g])

\* ------------------------------------------- the traffic limit and the other tunnels
\* Two clients connect to the rule; the first sends whole buffers, the second
\* single bytes.
NextLimit ==
    \/ \E c \in Conns, r \in Rules : Accept(c, r)
    \/ ClientWrite(1, BufSize)
    \/ ClientWrite(2, 1)
    \/ TargetWrite(1, 1)
    \/ Cloud
    \/ Agent

SpecLimit == Init /\ [][NextLimit]_vars

\* The traffic-limit of rule r has been exceeded (by a tunnel that is being
\* torn down for it, or was).
Exceeded(r) == TrafficLimit(r) > 0 /\ trafficUsed[r] > TrafficLimit(r)

\* C26: when one tunnel of a rule is torn down because the traffic-limit was
\* exceeded, the other established tunnels of the rule are not stopped: the
\* chunk such a tunnel has read goes on to be sent, and the tunnel stays in
\* the tunnel table.
C26_OtherTunnelsKeepForwarding ==
    [][\A c \in Conns :
          (pc[c] = "addtraffic" /\ Exceeded(hRule[c]) /\ pc'[c] # pc[c])
          => (pc'[c] = "senddata" /\ EntryOf(tunnelConns', c) # {})]_vars

\* ------------------------------------------- the pre-check of an inactive rule
\* C27: a connection accepted on a rule whose RuleState is inactive is closed
\* at the pre-check: the handler's pre-check step goes to closing the
\* connection, with no tunnel-id allocated, no pending-ack registered and no
\* Connect frame sent.
C27_InactiveRuleRefused ==
    [][\A c \in Conns :
          (pc[c] = "precheck" /\ ~active[hRule[c]] /\ pc'[c] # pc[c])
          => (pc'[c] = "closeconn" /\ tunnelIDGen' = tunnelIDGen
              /\ pendingAcks' = pendingAcks /\ toAgent' = toAgent)]_vars

\* ------------------------------------------- the pump of a limited rule
\* forward.go 99-104: StartRule builds the RuleState with TrafficUsed taken
\* from the rule and a RateLimiter made from the rule's rate limit.
MeterStart(lim, used, rl) ==
    /\ ~mStarted
    /\ mStarted' = TRUE
    /\ mLimit' = lim
    /\ mUsed0' = used
    /\ mUsed' = used
    /\ mLimiter' = rl
    /\ UNCHANGED <<tunnelVars, exceptMeter, mPc, mN, mNew, mTrail, mEmitted, mReads>>

\* forward.go 219-223: the pre-check of an accepted connection; the handshake
\* with the Agent is left out, the handler goes on to its pump loop.
MeterAccept(c) ==
    /\ mStarted
    /\ mPc[c] = "idle"
    /\ mPc' = [mPc EXCEPT ![c] =
                  IF mLimit > 0 /\ mUsed >= mLimit THEN "done" ELSE "read"]
    /\ UNCHANGED <<tunnelVars, exceptMeter, mStarted, mLimit, mLimiter, mUsed0,
                   mUsed, mN, mNew, mTrail, mEmitted, mReads>>

\* forward.go 307-312: conn.Read returns n > 0 bytes, or an error.
MeterRead(c, n) ==
    /\ mPc[c] = "read"
    /\ mReads < MaxMeterReads
    /\ mReads' = mReads + 1
    /\ mN' = [mN EXCEPT ![c] = n]
    /\ mTrail' = [mTrail EXCEPT ![c] = <<>>]
    /\ mPc' = [mPc EXCEPT ![c] = "add"]
    /\ UNCHANGED <<tunnelVars, exceptMeter, mStarted, mLimit, mLimiter, mUsed0,
                   mUsed, mNew, mEmitted>>

MeterReadErr(c) ==
    /\ mPc[c] = "read"
    /\ mPc' = [mPc EXCEPT ![c] = "done"]
    /\ UNCHANGED <<tunnelVars, exceptMeter, mStarted, mLimit, mLimiter, mUsed0,
                   mUsed, mN, mNew, mTrail, mEmitted, mReads>>

\* forward.go 192: newTotal := atomic.AddInt64(&state.TrafficUsed, n).
MeterAdd(c) ==
    /\ mPc[c] = "add"
    /\ mUsed' = mUsed + mN[c]
    /\ mNew' = [mNew EXCEPT ![c] = mUsed + mN[c]]
    /\ mTrail' = [mTrail EXCEPT ![c] = Append(@, "add")]
    /\ mPc' = [mPc EXCEPT ![c] = "compare"]
    /\ UNCHANGED <<tunnelVars, exceptMeter, mStarted, mLimit, mLimiter, mUsed0,
                   mN, mEmitted, mReads>>

\* Mutant: the comparison never fails.
MeterCompareNever(c) ==
    /\ mPc[c] = "compare"
    /\ mTrail' = [mTrail EXCEPT ![c] = Append(@, "compare")]
    /\ mPc' = [mPc EXCEPT ![c] = "wait"]
    /\ UNCHANGED <<tunnelVars, exceptMeter, mStarted, mLimit, mLimiter, mUsed0,
                   mUsed, mN, mNew, mEmitted, mReads>>

\* forward.go 196-199, 314-317: addTraffic returns false when newTotal is
\* above a non-zero limit, and the pump returns.
MeterCompare(c) ==
    /\ mPc[c] = "compare"
    /\ mTrail' = [mTrail EXCEPT ![c] = Append(@, "compare")]
    /\ mPc' = [mPc EXCEPT ![c] =
                  IF mLimit > 0 /\ mNew[c] > mLimit THEN "done" ELSE "wait"]
    /\ UNCHANGED <<tunnelVars, exceptMeter, mStarted, mLimit, mLimiter, mUsed0,
                   mUsed, mN, mNew, mEmitted, mReads>>

\* forward.go 319-322: with a RateLimiter, Wait(n) is called; it returns at
\* once or sleeps first.  Without one the step is skipped.
MeterWait(c) ==
    /\ mPc[c] = "wait"
    /\ \/ /\ mPc' = [mPc EXCEPT ![c] = "emit"]
          /\ mTrail' = [mTrail EXCEPT ![c] = Append(@, "wait")]
       \/ /\ mLimiter
          /\ mPc' = [mPc EXCEPT ![c] = "sleep"]
          /\ UNCHANGED mTrail
    /\ UNCHANGED <<tunnelVars, exceptMeter, mStarted, mLimit, mLimiter, mUsed0,
                   mUsed, mN, mNew, mEmitted, mReads>>

\* The sleep of Wait ends and Wait returns.
MeterWake(c) ==
    /\ mPc[c] = "sleep"
    /\ mPc' = [mPc EXCEPT ![c] = "emit"]
    /\ mTrail' = [mTrail EXCEPT ![c] = Append(@, "wait")]
    /\ UNCHANGED <<tunnelVars, exceptMeter, mStarted, mLimit, mLimiter, mUsed0,
                   mUsed, mN, mNew, mEmitted, mReads>>

\* forward.go 324-327: the Data frame with buf[:n] is sent to the Agent; on
\* an error the pump returns.
MeterEmit(c) ==
    /\ mPc[c] = "emit"
    /\ \/ /\ mEmitted' = mEmitted + mN[c]
          /\ mTrail' = [mTrail EXCEPT ![c] = Append(@, "emit")]
          /\ mPc' = [mPc EXCEPT ![c] = "read"]
       \/ /\ mPc' = [mPc EXCEPT ![c] = "done"]
          /\ UNCHANGED <<mEmitted, mTrail>>
    /\ UNCHANGED <<tunnelVars, exceptMeter, mStarted, mLimit, mLimiter, mUsed0,
                   mUsed, mN, mNew, mReads>>

NextMeter ==
    \/ \E lim \in MeterLimits, used \in MeterUsed, rl \in BOOLEAN :
          MeterStart(lim, used, rl)
    \/ \E c \in MeterConns :
          \/ MeterAccept(c)
          \/ \E n \in ChunkSizes : MeterRead(c, n)
          \/ MeterReadErr(c)
          \/ MeterAdd(c)
          \/ MeterCompare(c)
          \/ MeterWait(c)
          \/ MeterWake(c)
          \/ MeterEmit(c)

SpecMeter == Init /\ [][NextMeter]_vars

\* The order of the steps of one chunk.
ChunkOrder == <<"add", "compare", "wait", "emit">>

\* The steps the chunk of connection c went through are the first steps of
\* the order.
InOrder(c) ==
    /\ Len(mTrail[c]) <= Len(ChunkOrder)
    /\ \A i \in 1..Len(mTrail[c]) : mTrail[c][i] = ChunkOrder[i]

\* A step that emits the chunk of connection c.
Emits(c) == mEmitted' # mEmitted /\ mPc[c] = "emit" /\ mPc'[c] = "read"

CloseInFlight(a, i) ==
    \/ \E k \in 1..Len(toAgent[a]) : toAgent[a][k].type = "Close" /\ toAgent[a][k].id = i
    \/ \E k \in 1..Len(toCloud[a]) : toCloud[a][k].type = "Close" /\ toCloud[a][k].id = i

\* C29: in every reachable state each entry of the tunnel table has an entry
\* with the same tunnel-id in the tunnel set of the session of its owning
\* Agent, or a Close for that tunnel is in flight.
C29_TableEntryHasPeer ==
    \A e \in tunnelConns : e.id \in agentTunnels[e.agent] \/ CloseInFlight(e.agent, e.id)

\* The same outside the window between the two registration steps of a
\* handler.
C29_OutsideRegistration ==
    \A e \in tunnelConns :
        pc[e.conn] # "regagent" =>
            (e.id \in agentTunnels[e.agent] \/ CloseInFlight(e.agent, e.id))

\* No handler of a connection to Agent a is between the steps of a
\* registration or of a teardown.
Settled(a) ==
    \A c \in Conns :
        hAgent[c] = a => pc[c] \notin {"regtunnel", "regagent", "cleanup_tunnel", "cleanup_agent"}

\* C30: the active-tunnel counter of a session is never negative, and whenever
\* no registration or teardown step is half-done it equals the number of
\* entries of the session's tunnel set.
C30_CounterMatchesSet ==
    \A a \in Agents :
        /\ activeTunnels[a] >= 0
        /\ Settled(a) => activeTunnels[a] = Cardinality(agentTunnels[a])

\* ------------------------------------------- the target Agent is not connected
\* The handler of connection c takes a step.
Steps(c) == pc'[c] # pc[c]

\* C31: when the target Agent of the rule is not connected at the handler's
\* lookup, the handler goes straight to closing the client socket, and neither
\* the lookup nor the close changes anything else: no tunnel-id is allocated,
\* no pending-ack entry is created, no frame is sent, and the tunnel table and
\* traffic-used are unchanged.
C31_NoAgentClosesOnly ==
    /\ [][\A c \in Conns :
             (pc[c] = "getagent" /\ ~connected[TargetAgentID(hRule[c])] /\ Steps(c))
             => (pc'[c] = "closeconn"
                 /\ UNCHANGED <<fwdVars, sessVars, tid, sockVars, agentVars, emitted>>)]_vars
    /\ [][\A c \in Conns :
             (pc[c] = "closeconn" /\ Steps(c))
             => (pc'[c] = "done" /\ connClosed'[c]
                 /\ UNCHANGED <<fwdVars, sessVars, tid, agentVars, emitted>>)]_vars
    /\ [](\A c \in Conns :
             (pc[c] \in {"closeconn", "done"} /\ hAgent[c] = NoAgent)
             => (tid[c] = <<0, 0>> /\ EntryOf(pendingAcks, c) = {}
                 /\ EntryOf(tunnelConns, c) = {} /\ emitted[c] = <<>>))

\* The handler of connection 1 found its rule's Agent not connected and has
\* closed the client socket.
C31_Witness ==
    /\ pc[1] = "done" /\ connClosed[1] /\ hAgent[1] = NoAgent
    /\ ~connected[TargetAgentID(hRule[1])]
    /\ ~LimitReached(hRule[1])

\* ------------------------------------------- the life of a pending-ack entry
\* C32: the pending-ack table holds an entry for a connection's tunnel-id
\* exactly while its handler is sending the Connect and waiting for the
\* ConnectAck (or is on its way out of a failed wait, about to evict it): no
\* entry exists for a tunnel that is established.
C32_PendingOnlyWhileWaiting ==
    \A c \in Conns :
        /\ pc[c] \in {"sendconnect", "waitack"} => EntryOf(pendingAcks, c) # {}
        /\ EntryOf(pendingAcks, c) # {}
              => pc[c] \in {"sendconnect", "waitack", "cleanup_pending"}

\* ------------------------------------------- the rule-table lock and I/O
\* rulesMu is a sync.RWMutex: Lock needs no holder, RLock needs no writer.
NoHolder == \A t \in LockTasks : wMode[t] = "none"
NoWriter == \A t \in LockTasks : wMode[t] # "write"

LockFrame == <<tunnelVars, exceptLock>>

\* forward.go 91-159: StartRule of a udp rule, taken as one step under
\* rulesMu.Lock.
LockedStartRule(t, u) ==
    /\ wPc[t] = "idle" /\ wOps < MaxLockOps
    /\ NoHolder
    /\ u \notin wRun
    /\ wRun' = wRun \cup {u}
    /\ wOps' = wOps + 1
    /\ UNCHANGED <<LockFrame, wPc, wMode, wRule>>

\* forward.go 163-164: f.rulesMu.Lock(); defer f.rulesMu.Unlock().
StopRuleLock(t, u) ==
    /\ wPc[t] = "idle" /\ wOps < MaxLockOps
    /\ NoHolder
    /\ wMode' = [wMode EXCEPT ![t] = "write"]
    /\ wRule' = [wRule EXCEPT ![t] = u]
    /\ wPc' = [wPc EXCEPT ![t] = "lookup"]
    /\ wOps' = wOps + 1
    /\ UNCHANGED <<LockFrame, wRun>>

\* forward.go 166-169: a rule that is not running: return nil (the deferred
\* Unlock runs).
StopRuleLookup(t) ==
    /\ wPc[t] = "lookup"
    /\ IF wRule[t] \in wRun
       THEN /\ wPc' = [wPc EXCEPT ![t] = "close"]
            /\ UNCHANGED wMode
       ELSE /\ wPc' = [wPc EXCEPT ![t] = "idle"]
            /\ wMode' = [wMode EXCEPT ![t] = "none"]
    /\ UNCHANGED <<LockFrame, wRun, wRule, wOps>>

\* forward.go 171-181: Active = false, the sockets are closed, TrafficUsed is
\* loaded; the call of store.UpdateTrafficUsed begins.
StopRuleClose(t) ==
    /\ wPc[t] = "close"
    /\ wPc' = [wPc EXCEPT ![t] = "store"]
    /\ UNCHANGED <<LockFrame, wRun, wMode, wRule, wOps>>

\* forward.go 182, store.go 194-197: the UPDATE has been executed and
\* UpdateTrafficUsed returns.
StopRuleStored(t) ==
    /\ wPc[t] = "store"
    /\ wPc' = [wPc EXCEPT ![t] = "delete"]
    /\ UNCHANGED <<LockFrame, wRun, wMode, wRule, wOps>>

\* forward.go 184-187: delete(f.rules, ruleID); return nil (the deferred
\* Unlock runs).
StopRuleDelete(t) ==
    /\ wPc[t] = "delete"
    /\ wRun' = wRun \ {wRule[t]}
    /\ wPc' = [wPc EXCEPT ![t] = "idle"]
    /\ wMode' = [wMode EXCEPT ![t] = "none"]
    /\ UNCHANGED <<LockFrame, wRule, wOps>>

\* forward.go 540: f.rulesMu.RLock().
UDPDataRLock(t) ==
    /\ wPc[t] = "idle" /\ wOps < MaxLockOps
    /\ NoWriter
    /\ wMode' = [wMode EXCEPT ![t] = "read"]
    /\ wPc' = [wPc EXCEPT ![t] = "scan"]
    /\ wOps' = wOps + 1
    /\ UNCHANGED <<LockFrame, wRun, wRule>>

\* forward.go 541-547: the range over f.rules; at the first rule of the Agent
\* with a udp socket the call of WriteToUDP begins.
UDPDataScan(t) ==
    /\ wPc[t] = "scan"
    /\ IF wRun = {}
       THEN /\ wPc' = [wPc EXCEPT ![t] = "unlock"]
            /\ UNCHANGED wRule
       ELSE \E u \in wRun :
               /\ wRule' = [wRule EXCEPT ![t] = u]
               /\ wPc' = [wPc EXCEPT ![t] = "write"]
    /\ UNCHANGED <<LockFrame, wRun, wMode, wOps>>

\* forward.go 544-545: WriteToUDP returns; break.
UDPDataWritten(t) ==
    /\ wPc[t] = "write"
    /\ wPc' = [wPc EXCEPT ![t] = "unlock"]
    /\ UNCHANGED <<LockFrame, wRun, wMode, wRule, wOps>>

\* forward.go 548: f.rulesMu.RUnlock().
UDPDataRUnlock(t) ==
    /\ wPc[t] = "unlock"
    /\ wMode' = [wMode EXCEPT ![t] = "none"]
    /\ wPc' = [wPc EXCEPT ![t] = "idle"]
    /\ UNCHANGED <<LockFrame, wRun, wRule, wOps>>

NextLock ==
    \/ \E t \in ApiTasks, u \in UDPRules :
          \/ LockedStartRule(t, u)
          \/ StopRuleLock(t, u)
    \/ \E t \in ApiTasks :
          \/ StopRuleLookup(t)
          \/ StopRuleClose(t)
          \/ StopRuleStored(t)
          \/ StopRuleDelete(t)
    \/ \E t \in ReaderTasks :
          \/ UDPDataRLock(t)
          \/ UDPDataScan(t)
          \/ UDPDataWritten(t)
          \/ UDPDataRUnlock(t)

SpecLock == Init /\ [][NextLock]_vars

\* Task t is inside a call that writes to the store or sends a datagram.
InIO(t) == wPc[t] \in {"store", "write"}

\* C33: no task is inside socket or store I/O while it holds the rule-table
\* lock: HandleUDPData does not send its datagram and StopRule does not write
\* to the store with rulesMu held.
C33_NoIOUnderLock == \A t \in LockTasks : InIO(t) => wMode[t] = "none"

\* ------------------------------------------- the Agent's Connect and its reader
\* C34: on the Agent a successful Connect registers the tunnel before its
\* reader starts, and while the ConnectAck{success:true} of a tunnel has not
\* been put on the channel the Agent has put no Data (and no Close) frame of
\* that tunnel on it; a failed dial registers no tunnel and starts no reader.
C34_AckBeforeData ==
    /\ [](\A a \in Agents :
             ackDue[a] # <<>> =>
                LET f == Head(ackDue[a]) IN
                IF f.ok THEN sideLog["agent"][f.c] = <<>>
                ELSE ~MapHas(rpTunnels[a], f.id) /\ rpc[f.c] = "none")
    /\ [][\A s \in Conns :
             (rpc[s] = "none" /\ rpc'[s] = "read")
             => \E e \in rpTunnels'[hAgent[s]] : e.conn = s /\ e.id = tid[s]]_vars

\* ------------------------------------------- handling Close
\* The dispatcher of session a handles the Close frame at the head of its
\* channel; the Agent handles the Close frame at the head of its channel.
CloudTakesClose(a) ==
    /\ HeadIs(a, "Close") /\ connected'[a]
    /\ Len(toCloud'[a]) = Len(toCloud[a]) - 1
AgentTakesClose(a) ==
    /\ AgentHeadIs(a, "Close") /\ connected'[a]
    /\ Len(toAgent'[a]) = Len(toAgent[a]) - 1

\* C35: handling Close{tunnel-id} closes the tunnel's socket and evicts the
\* tunnel on the side that receives it; a Close for an id that side does not
\* know (never known, or evicted before) changes no table, no socket and no
\* counter there.
C35_CloseEvictsOnce ==
    /\ [][\A a \in Agents : CloudTakesClose(a) =>
            LET i == Head(toCloud[a]).id IN
            /\ ~MapHas(tunnelConns', i) /\ i \notin agentTunnels'[a]
            /\ MapHas(tunnelConns, i) => connClosed'[MapGet(tunnelConns, i).conn]
            /\ (~MapHas(tunnelConns, i) /\ i \notin agentTunnels[a])
                  => UNCHANGED <<tunnelConns, pendingAcks, agentTunnels,
                                 activeTunnels, connClosed>>]_vars
    /\ [][\A a \in Agents : AgentTakesClose(a) =>
            LET i == Head(toAgent[a]).id IN
            /\ ~MapHas(rpTunnels'[a], i)
            /\ MapHas(rpTunnels[a], i) => localClosed'[MapGet(rpTunnels[a], i).conn]
            /\ ~MapHas(rpTunnels[a], i) => UNCHANGED <<rpTunnels, localClosed>>]_vars

\* Cloud has handled the Agent's Close of an established tunnel whose handler
\* is still in its read: socket closed, both entries gone; and the Agent has
\* been sent nothing yet for that tunnel's end.
C35_Witness ==
    /\ pc[1] = "read" /\ connClosed[1] /\ "cloud" \in closeSeen[1]
    /\ tunnelConns = {} /\ agentTunnels[hAgent[1]] = {}

\* ------------------------------------------- the two directions of a direct connection
\* C36: in a cloud->direct tcp connection whose traffic-limit is not exceeded,
\* the sockets are not closed before the target has ended its stream and
\* every byte it wrote has been written to the client, also when the client
\* has shut down its sending side first: one direction that ends does not cut
\* off the other.
C36_OtherDirectionGoesOn ==
    (dpc = "done" /\ dPut["t2c"] > 0 /\ dUsed["dt"] <= DirectLimit("dt"))
        => (dEOF["t2c"] /\ dGot["t2c"] = dPut["t2c"])

\* ------------------------------------------- a ConnectAck after the timeout
\* The Agent holds an open tunnel for the Connect of connection c.
AgentHolds(c) == rpc[c] = "read" /\ ~localClosed[c]

\* C37: when Cloud's wait for the ConnectAck of connection c has timed out
\* while the Agent has opened the tunnel, the late ack changes no table at
\* Cloud, and the Agent's tunnel does not stay open for ever: a Close for its
\* tunnel-id reaches the Agent (or the tunnel has ended on the Agent's side).
C37_LateAckTunnelClosed ==
    /\ [][\A a \in Agents :
             (HeadIs(a, "ConnectAck") /\ connected'[a]
              /\ Len(toCloud'[a]) = Len(toCloud[a]) - 1
              /\ \E c \in Conns : ackOutcome[c] = "timeout" /\ tid[c] = Head(toCloud[a]).id)
             => UNCHANGED <<tunnelConns, pendingAcks, agentTunnels, activeTunnels>>]_vars
    /\ \A c \in Conns :
          (ackOutcome[c] = "timeout" /\ AgentHolds(c))
              ~> ("agent" \in closeSeen[c] \/ ~AgentHolds(c))

\* ------------------------------------------- handing over a ConnectAck
AckFrame == <<tunnelVars, exceptAck>>

\* forward.go 233-249: the accept task of tunnel t makes its channel of
\* capacity 1, enters it into f.pendingAcks and sends Connect.
PendingAccept(t) ==
    /\ aHandler[t] = "idle"
    /\ aHandler' = [aHandler EXCEPT ![t] = "wait"]
    /\ aEntry' = aEntry \cup {t}
    /\ UNCHANGED <<AckFrame, aChan, aReader, aFor, aQueue, aSent>>

\* The session receives a ConnectAck frame for tunnel t, whose Connect has
\* been sent: the Agent's answer, or one more for the same tunnel-id.
AckArrives(t) ==
    /\ aHandler[t] # "idle"
    /\ aSent < MaxAcks
    /\ aSent' = aSent + 1
    /\ aQueue' = Append(aQueue, t)
    /\ UNCHANGED <<AckFrame, aEntry, aChan, aHandler, aReader, aFor>>

\* forward.go 558-566: HandleConnectAck decodes the frame and looks the
\* channel up under pendingMu; without an entry it returns.
AckLookup ==
    /\ aReader = "idle"
    /\ aQueue # <<>>
    /\ aQueue' = Tail(aQueue)
    /\ IF Head(aQueue) \in aEntry
       THEN aReader' = "send" /\ aFor' = Head(aQueue)
       ELSE UNCHANGED <<aReader, aFor>>
    /\ UNCHANGED <<AckFrame, aEntry, aChan, aHandler, aSent>>

\* forward.go 568-570: ch <- ack, which returns once the channel has room.
AckHandOver ==
    /\ aReader = "send"
    /\ aChan[aFor] = 0
    /\ aChan' = [aChan EXCEPT ![aFor] = 1]
    /\ aReader' = "idle"
    /\ aFor' = "none"
    /\ UNCHANGED <<AckFrame, aEntry, aHandler, aQueue, aSent>>

\* forward.go 254-260: case ack := <-ackChan; a refusal returns, and the
\* deferred function (241-245) deletes the entry.
AckTaken(t) ==
    /\ aHandler[t] = "wait"
    /\ aChan[t] = 1
    /\ aChan' = [aChan EXCEPT ![t] = 0]
    /\ \E ok \in BOOLEAN :
          IF ok
          THEN aHandler' = [aHandler EXCEPT ![t] = "established"] /\ UNCHANGED aEntry
          ELSE aHandler' = [aHandler EXCEPT ![t] = "done"] /\ aEntry' = aEntry \ {t}
    /\ UNCHANGED <<AckFrame, aReader, aFor, aQueue, aSent>>

\* forward.go 261-263: case <-time.After(30 * time.Second); the deferred
\* function deletes the entry.
AckWaitExpires(t) ==
    /\ aHandler[t] = "wait"
    /\ aHandler' = [aHandler EXCEPT ![t] = "done"]
    /\ aEntry' = aEntry \ {t}
    /\ UNCHANGED <<AckFrame, aChan, aReader, aFor, aQueue, aSent>>

\* forward.go 306-329 and 241-245: the pump of the established tunnel ends and
\* the deferred function deletes the entry.
AckTunnelEnds(t) ==
    /\ aHandler[t] = "established"
    /\ aHandler' = [aHandler EXCEPT ![t] = "done"]
    /\ aEntry' = aEntry \ {t}
    /\ UNCHANGED <<AckFrame, aChan, aReader, aFor, aQueue, aSent>>

NextAck ==
    \/ AckLookup
    \/ AckHandOver
    \/ \E t \in AckTunnels :
          \/ PendingAccept(t)
          \/ AckArrives(t)
          \/ AckTaken(t)
          \/ AckWaitExpires(t)
          \/ AckTunnelEnds(t)

SpecAck == Init /\ [][NextAck]_vars

\* The reader and the accept tasks take the steps they can take; clients may
\* keep a tunnel open for ever and the deadline is no step a task owes.
FairAck ==
    /\ SpecAck
    /\ WF_vars(AckLookup) /\ WF_vars(AckHandOver)
    /\ \A t \in AckTunnels : WF_vars(AckTaken(t))

\* C38: handing a ConnectAck to the rendezvous does not block the session's
\* reader: whenever the reader is in the channel send of HandleConnectAck it
\* gets out of it, whatever number of ConnectAck frames arrive for the
\* tunnel-id.
C38_AckNeverBlocksReader == (aReader = "send") ~> (aReader = "idle")

\* ------------------------------------------- stopping and restarting a listener
ListenFrame == <<tunnelVars, exceptListen>>

\* The listen port of rule r is bound: a socket of one of its RuleStates is
\* open.
PortHeld(r) == \E g \in ListenGens : nOpen[r][g]

\* forward.go 91-159: StartRule(r).  A running rule is refused; a bind of a
\* port that is held fails; otherwise the RuleState is built with Active true,
\* the socket is bound, the listener task is started and the state is entered
\* into f.rules.  A behaviour exercises one of the two rules: they share no
\* state but the table.
ListenStart(r) ==
    /\ nGen[r] < MaxStarts
    /\ \A q \in ListenRules \ {r} : nGen[q] = 0
    /\ IF nRun[r] # 0
       THEN /\ nCall' = [op |-> "start", rule |-> r, ret |-> "exists"]
            /\ UNCHANGED <<nRun, nGen, nActive, nOpen, nTask>>
       ELSE IF PortHeld(r)
       THEN /\ nCall' = [op |-> "start", rule |-> r, ret |-> "listen"]
            /\ UNCHANGED <<nRun, nGen, nActive, nOpen, nTask>>
       ELSE LET g == nGen[r] + 1 IN
            /\ nGen' = [nGen EXCEPT ![r] = g]
            /\ nActive' = [nActive EXCEPT ![r][g] = TRUE]
            /\ nOpen' = [nOpen EXCEPT ![r][g] = TRUE]
            /\ nTask' = [nTask EXCEPT ![r][g] = "loop"]
            /\ nRun' = [nRun EXCEPT ![r] = g]
            /\ nCall' = [op |-> "start", rule |-> r, ret |-> "nil"]
    /\ UNCHANGED <<ListenFrame, nServed>>

\* Mutant: StopRule without closing the listener and the udp socket.
ListenStopKeepsSocket(r) ==
    /\ nCall' = [op |-> "stop", rule |-> r, ret |-> "nil"]
    /\ IF nRun[r] = 0
       THEN UNCHANGED <<nRun, nActive, nOpen>>
       ELSE /\ nActive' = [nActive EXCEPT ![r][nRun[r]] = FALSE]
            /\ nRun' = [nRun EXCEPT ![r] = 0]
            /\ UNCHANGED nOpen
    /\ UNCHANGED <<ListenFrame, nGen, nTask, nServed>>

\* forward.go 162-187: StopRule(r).  A rule that is not in f.rules: return
\* nil.  Otherwise Active = false, the listener or the udp socket is closed,
\* traffic-used is saved and the entry is deleted.
ListenStop(r) ==
    /\ nCall' = [op |-> "stop", rule |-> r, ret |-> "nil"]
    /\ IF nRun[r] = 0
       THEN UNCHANGED <<nRun, nActive, nOpen>>
       ELSE /\ nActive' = [nActive EXCEPT ![r][nRun[r]] = FALSE]
            /\ nOpen' = [nOpen EXCEPT ![r][nRun[r]] = FALSE]
            /\ nRun' = [nRun EXCEPT ![r] = 0]
    /\ UNCHANGED <<ListenFrame, nGen, nTask, nServed>>

\* forward.go 203, 337: for state.Active {.
ListenerLoopTest(r, g) ==
    /\ nTask[r][g] = "loop"
    /\ nTask' = [nTask EXCEPT ![r][g] = IF nActive[r][g] THEN "accept" ELSE "ended"]
    /\ UNCHANGED <<ListenFrame, nRun, nGen, nActive, nOpen, nServed, nCall>>

\* forward.go 204-210, 338-342: Accept or ReadFromUDP returns an error, and
\* the loop continues: the socket was closed, or (udp) the read deadline of one
\* second passed.
ListenerReadErr(r, g) ==
    /\ nTask[r][g] = "accept"
    /\ ~nOpen[r][g] \/ r = "lu"
    /\ nTask' = [nTask EXCEPT ![r][g] = "loop"]
    /\ UNCHANGED <<ListenFrame, nRun, nGen, nActive, nOpen, nServed, nCall>>

\* forward.go 204-212, 338-362: a client connects or sends a datagram to the
\* open socket; the task hands it on and goes round its loop.
ListenerServe(r, g) ==
    /\ nTask[r][g] = "accept"
    /\ nOpen[r][g]
    /\ nServed[r][g] < MaxServed
    /\ nServed' = [nServed EXCEPT ![r][g] = @ + 1]
    /\ nTask' = [nTask EXCEPT ![r][g] = "loop"]
    /\ UNCHANGED <<ListenFrame, nRun, nGen, nActive, nOpen, nCall>>

NextListen ==
    \E r \in ListenRules :
        \/ ListenStart(r)
        \/ ListenStop(r)
        \/ \E g \in ListenGens :
              \/ ListenerLoopTest(r, g)
              \/ ListenerReadErr(r, g)
              \/ ListenerServe(r, g)

SpecListen == Init /\ [][NextListen]_vars

\* The listener tasks take the steps they can take; clients and the callers of
\* StartRule and StopRule owe nothing.
FairListen ==
    /\ SpecListen
    /\ \A r \in ListenRules, g \in ListenGens :
          WF_vars(ListenerLoopTest(r, g) \/ ListenerReadErr(r, g))

\* The listener tasks of rule r that can take a connection or a datagram.
Serving(r) == {g \in ListenGens : nTask[r][g] \in {"loop", "accept"} /\ nOpen[r][g]}

\* A call of StartRule or StopRule for rule r returns.
Returns(op, r) == nCall' # nCall /\ nCall'.op = op /\ nCall'.rule = r

\* C39: after StopRule(r) the listen port of r is released and the listener
\* task of the stopped RuleState terminates; a StartRule of a rule that is not
\* running binds the port and returns nil, and exactly one listener task, the
\* one of the RuleState in the table, then serves the rule; StopRule of a rule
\* that is not running returns nil and changes nothing.
C39_StopReleasesListener ==
    /\ [](\A r \in ListenRules :
             /\ nRun[r] = 0 => (~PortHeld(r) /\ Serving(r) = {})
             /\ nRun[r] # 0 => Serving(r) = {nRun[r]})
    /\ [][\A r \in ListenRules :
             /\ (Returns("start", r) /\ nRun[r] = 0)
                   => (nCall'.ret = "nil" /\ nRun'[r] # 0 /\ nOpen'[r][nRun'[r]])
             /\ (Returns("stop", r) /\ nRun[r] = 0)
                   => (nCall'.ret = "nil"
                       /\ UNCHANGED <<nRun, nGen, nActive, nOpen, nTask, nServed>>)
             /\ \A g \in ListenGens :
                   nServed'[r][g] # nServed[r][g] => g = nRun[r]]_vars
    /\ \A r \in ListenRules, g \in ListenGens :
          (nTask[r][g] # "none" /\ ~nActive[r][g]) ~> (nTask[r][g] = "ended")

\* The udp rule has been stopped and started again: its first listener task
\* has ended after taking a datagram, the second one has taken one too, and a
\* StopRule of the tcp rule, which is not running, has returned.
C39_Witness ==
    /\ nRun["lu"] = 2 /\ nTask["lu"][1] = "ended" /\ nServed["lu"][1] = 1
    /\ nServed["lu"][2] = 1 /\ nTask["lu"][2] = "accept"
    /\ nCall = [op |-> "stop", rule |-> "lt", ret |-> "nil"]

=============================================================================
